---- MODULE Spec2Model ----
(***************************************************************************)
(* A model of galaxy_ast_docs: the directory walker, the language          *)
(* registry, the MeTTa lexer and parser, the MeTTa definition extractor,   *)
(* the tree-sitter definition extractor, the main pipeline of              *)
(* generate_ast_docs, the tree-to-graph builders, the walker together      *)
(* with the MeTTa parser on the text of its files, and run_docs.           *)
(*                                                                         *)
(* Text is a sequence of characters, each a string, so that the code's     *)
(* string operations (startswith, splitext, lower, concatenation, sorting) *)
(* are modelled by what they do.  A Python value that may be None is a     *)
(* sequence of length 0 or 1 (Nothing, Just(x)); a Python dict is a        *)
(* record whose DOMAIN holds the keys that are present.                    *)
(***************************************************************************)
EXTENDS Naturals, Integers, Sequences, FiniteSets, TLC

VARIABLES
    fs,         \* the entry at root_path: the file system the walk reads
    lib,        \* the tree-sitter shared library: does it exist, what loads
    mettaOnly,  \* the --metta-only flag
    LANGS,      \* keys of language_layer._LANGS
    wstack,     \* the active process_path calls of build_tree
    results,    \* main's `results` (Nothing before the walk returns)
    raised,     \* the exception that escaped to the caller ("" for none)
    pc,         \* position of main
    stats,      \* print_summary's counters
    saved,      \* what save_to_json was handed
    failed,     \* history: the files whose try block raised, with the exception
    walked,     \* history: what walk_and_parse returned
    tree,       \* the tree object walk_and_parse returned, as it is now
    G,          \* the networkx DiGraph under construction
    gstack,     \* pending add_node calls, next call first
    prevG,      \* history: the graph of the previous build of the same tree
    builds,     \* history: number of completed graph builds
    VG,         \* the graph json_to_graph returned, if it has run
    code,       \* the text handed to MeTTaLexer.tokenize
    lex,        \* tokenize's locals: scan position, tokens, line_num, line_start
    plan,       \* the sources still to be handed to the parser, in order
    source,     \* the source of the current (or last) call of MeTTaParser.parse
    tokens,     \* MeTTaParser.tokens
    current,    \* MeTTaParser.current
    pstack,     \* the parser's call stack: one frame per node under construction
    ppc,        \* "idle", "parsing", "parsed", "extracted" or "raised"
    ast,        \* the root node returned by the last parse, if any
    records,    \* history: <<source, definitions record>> of every extraction
    phist,      \* history of the current parse: the forms returned, with the
                \* tokens that opened and closed them, and what the top level did
    room,       \* the Python frames the recursion limit leaves from the caller
                \* of MeTTaParser.parse on (that caller counted)
    lang_name,  \* extract_definitions: the language of the tree
    xroot,      \* extract_definitions: tree.root_node
    xstack,     \* pending calls of extract_definitions.walk, next call first, each with
                \* the depth of its frame (the caller of extract_definitions at 1)
    xclasses,   \* extract_definitions: the list `classes`
    functions_outside,  \* extract_definitions: the list `functions_outside`
    xpc,        \* "idle", "walking", "returned" or "raised"
    xraised,    \* the exception that left extract_definitions ("" for none)
    xroom,      \* the Python frames the recursion limit leaves from the caller
                \* of extract_definitions on (that caller counted)
    xwarmup,    \* the warm-up events of walk_var's code in this interpreter so far
    target_exists,  \* run_docs: target_root.exists()
    tool_exists,    \* run_docs: md_to_html_path.exists()
    dpc,        \* run_docs.main: "idle", "trying" (inside try_variants), "opening", "done" or "exited"
    dstep,      \* run_docs.main: the step whose try_variants call is running (0 before the first)
    variants,   \* try_variants: the list it was handed
    tried,      \* history: the commands the running try_variants call has run, with how each ended
    last_errors,    \* try_variants: last_errors (the commands)
    calls,      \* history: the try_variants calls that returned: step and number of commands run
    dstatus,    \* the exit status of the process (Nothing while it runs)
    no_open,    \* run_docs: args.no_open
    platform,   \* run_docs: sys.platform ("linux" for every value that starts with it)
    browser     \* run_docs: the opener main called and the message it printed after it

walkVars  == <<fs, lib, mettaOnly, LANGS, wstack, results, raised, pc, stats, saved, failed, walked, tree>>
graphVars == <<G, gstack, prevG, builds, VG>>
lexVars   == <<code, lex>>
parseVars == <<plan, source, tokens, current, pstack, ppc, ast, records, phist, room>>
extractVars == <<lang_name, xroot, xstack, xclasses, functions_outside, xpc, xraised, xroom,
                 xwarmup>>
docsVars  == <<target_exists, tool_exists, dpc, dstep, variants, tried, last_errors, calls, dstatus,
               no_open, platform, browser>>
vars      == <<walkVars, graphVars, lexVars, parseVars, extractVars, docsVars>>

\* What the actions of each component leave alone.
outsideWalk  == <<lexVars, parseVars, extractVars, docsVars>>
outsideGraph == <<lexVars, parseVars, extractVars, docsVars>>
outsideLex   == <<walkVars, graphVars, parseVars, extractVars, docsVars>>
outsideParse == <<walkVars, graphVars, lexVars, extractVars, docsVars>>
outsideExtract == <<walkVars, graphVars, lexVars, parseVars, docsVars>>
outsideDocs  == <<walkVars, graphVars, lexVars, parseVars, extractVars>>

(***************************************************************************)
(* Python values                                                           *)
(***************************************************************************)
Nothing == <<>>
Just(x) == <<x>>
HasKey(d, k) == k \in DOMAIN d

\* dict.get(k, default)
DictGet(d, k, default) == IF HasKey(d, k) THEN d[k] ELSE default

\* The sequences over S of length at most n.
SeqsUpTo(S, n) == UNION {[1..k -> S] : k \in 0..n}

\* The characters of the model in ascending code point order.
AsciiOrder ==
    << "\t", "\n", "\f", "\r", " ", "!", "\"", "#", "$", "&", "(", ")", "*", "+", "-", ".", "/",
       "0", "1", "2", "3", "4", "5", "6", "7", "8", "9", ":", ";", "<", "=", ">",
       "A", "B", "C", "D", "E", "F", "G", "H", "I", "J", "K", "L", "M", "N", "O", "P", "Q",
       "R", "S", "T", "U", "V", "W", "X", "Y", "Z", "[", "\\", "]", "_",
       "a", "b", "c", "d", "e", "f", "g", "h", "i", "j", "k", "l", "m", "n", "o", "p", "q",
       "r", "s", "t", "u", "v", "w", "x", "y", "z" >>

Ord(c) == CHOOSE i \in 1..Len(AsciiOrder) : AsciiOrder[i] = c

\* str.__lt__: lexicographic by code point.
StrLess(a, b) ==
    \E k \in 1..(Len(a) + 1) :
        /\ k <= Len(b)
        /\ \A j \in 1..(k - 1) : a[j] = b[j]
        /\ (k = Len(a) + 1 \/ Ord(a[k]) < Ord(b[k]))

\* sorted(names): the names of S in ascending order.
RECURSIVE Sorted(_)
Sorted(S) ==
    IF S = {} THEN <<>>
    ELSE LET m == CHOOSE x \in S : \A y \in S \ {x} : StrLess(x, y)
         IN  <<m>> \o Sorted(S \ {m})

UpperLetters ==
    << "A", "B", "C", "D", "E", "F", "G", "H", "I", "J", "K", "L", "M",
       "N", "O", "P", "Q", "R", "S", "T", "U", "V", "W", "X", "Y", "Z" >>

LowerLetters ==
    << "a", "b", "c", "d", "e", "f", "g", "h", "i", "j", "k", "l", "m",
       "n", "o", "p", "q", "r", "s", "t", "u", "v", "w", "x", "y", "z" >>

\* str.lower() on one character: every upper-case letter has its lower-case
\* letter, every other character of AsciiOrder is left as it is.
LowerChar(c) ==
    IF \E i \in 1..Len(UpperLetters) : UpperLetters[i] = c
    THEN LowerLetters[CHOOSE i \in 1..Len(UpperLetters) : UpperLetters[i] = c]
    ELSE c

Lower(s) == [i \in 1..Len(s) |-> LowerChar(s[i])]

\* The index of the last "/" of a path, 0 when it has none.
LastSep(p) ==
    LET seps == {i \in 1..Len(p) : p[i] = "/"}
    IN  IF seps = {} THEN 0 ELSE CHOOSE i \in seps : \A j \in seps : j <= i

\* os.path.basename(p): the text after the last "/".
basename(p) == SubSeq(p, LastSep(p) + 1, Len(p))

\* os.path.join(a, b) for a relative b.
join(a, b) ==
    IF a = <<>> \/ a[Len(a)] = "/" THEN a \o b ELSE a \o <<"/">> \o b

\* The components of a path: the texts between its "/".
RECURSIVE Components(_)
Components(p) ==
    IF LastSep(p) = 0 THEN <<p>>
    ELSE Append(Components(SubSeq(p, 1, LastSep(p) - 1)), basename(p))

\* os.path.normpath of an absolute path: the empty and the "." components
\* are dropped, ".." drops the component before it.
RECURSIVE NormFrom(_, _, _)
NormFrom(comps, i, kept) ==
    IF i > Len(comps) THEN kept
    ELSE IF comps[i] = <<>> \/ comps[i] = <<".">> THEN NormFrom(comps, i + 1, kept)
    ELSE IF comps[i] = <<".", ".">>
         THEN NormFrom(comps, i + 1, SubSeq(kept, 1, Len(kept) - 1))
    ELSE NormFrom(comps, i + 1, Append(kept, comps[i]))

RECURSIVE JoinComponents(_, _)
JoinComponents(comps, i) ==
    IF i > Len(comps) THEN <<>>
    ELSE <<"/">> \o comps[i] \o JoinComponents(comps, i + 1)

\* The number of leading "/" of a path.
RECURSIVE LeadingSlashes(_)
LeadingSlashes(p) ==
    IF p = <<>> \/ p[1] # "/" THEN 0 ELSE 1 + LeadingSlashes(Tail(p))

\* os.path.abspath(p) in the working directory cwd.  A path that begins
\* with exactly two "/" keeps both (POSIX); any other number becomes one.
abspath(p, cwd) ==
    LET full  == IF p # <<>> /\ p[1] = "/" THEN p ELSE join(cwd, p)
        comps == NormFrom(Components(full), 1, <<>>)
        extra == IF LeadingSlashes(full) = 2 THEN <<"/">> ELSE <<>>
    IN  IF comps = <<>> THEN extra \o <<"/">> ELSE extra \o JoinComponents(comps, 1)

\* os.path.splitext(path)[1]: the text from the last dot of the last
\* component on, unless only dots precede that dot in the component.
SplitExt(path) ==
    LET sep  == LastSep(path)
        dots == {i \in (sep + 1)..Len(path) : path[i] = "."}
    IN  IF dots = {} THEN <<>>
        ELSE LET d == CHOOSE i \in dots : \A j \in dots : j <= i
             IN  IF \E j \in (sep + 1)..(d - 1) : path[j] # "."
                 THEN SubSeq(path, d, Len(path))
                 ELSE <<>>

(***************************************************************************)
(* language_layer.py                                                       *)
(***************************************************************************)
NoLang == "None"

PARSERS == <<"python", "javascript", "java">>

ExtPy    == <<".", "p", "y">>
ExtJs    == <<".", "j", "s">>
ExtJava  == <<".", "j", "a", "v", "a">>
ExtMetta == <<".", "m", "e", "t", "t", "a">>
ExtMta   == <<".", "m", "t", "a">>
ExtTxt   == <<".", "t", "x", "t">>

EXT_MAP ==
    (ExtPy :> "python") @@ (ExtJs :> "javascript") @@ (ExtJava :> "java")
        @@ (ExtMetta :> "metta") @@ (ExtMta :> "metta")

detect_language(file_path) ==
    LET ext == Lower(SplitExt(file_path))
    IN  IF ext \in DOMAIN EXT_MAP THEN EXT_MAP[ext] ELSE NoLang

is_metta_language(lang) == lang = "metta"

\* _load_languages: _ensure_built, then Language(LIB_PATH, name) for every
\* name of PARSERS not loaded yet, stopping at the first that fails.  The
\* names loaded before the failure stay in _LANGS.
RECURSIVE LoadFrom(_, _, _)
LoadFrom(i, langs, libst) ==
    IF i > Len(PARSERS) THEN [exc |-> "", langs |-> langs]
    ELSE IF PARSERS[i] \in langs THEN LoadFrom(i + 1, langs, libst)
    ELSE IF PARSERS[i] \notin libst.loadable
         THEN [exc |-> "RuntimeError: Failed to load language", langs |-> langs]
    ELSE LoadFrom(i + 1, langs \cup {PARSERS[i]}, libst)

load_languages(langs, libst) ==
    IF ~libst.exists
    THEN [exc |-> "RuntimeError: Tree-sitter language library not found", langs |-> langs]
    ELSE LoadFrom(1, langs, libst)

\* parser.set_language(_LANGS[lang_name]): a name that is not a key of
\* _LANGS raises KeyError.
set_language(lang, langs) ==
    IF lang \in langs THEN [exc |-> "", langs |-> langs, handle |-> lang]
    ELSE [exc |-> "KeyError: " \o lang, langs |-> langs, handle |-> "None"]

\* Faulty variant: the library is loaded for MeTTa as well.
get_parser_loading(lang, langs, libst) ==
    IF lang \in langs THEN set_language(lang, langs)
    ELSE LET r == load_languages(langs, libst)
         IN  IF r.exc # "" THEN [exc |-> r.exc, langs |-> r.langs, handle |-> "None"]
             ELSE IF lang = "metta" THEN [exc |-> "", langs |-> r.langs, handle |-> "None"]
             ELSE set_language(lang, r.langs)

\* get_parser: None for MeTTa without touching the library; otherwise loads
\* the languages on first use and sets the parser to the language, which
\* raises KeyError for a name that is not loaded even then.  handle is
\* "None" (the MeTTa sentinel, or no parser when exc is set) or the language
\* the tree-sitter parser was set to.
get_parser(lang, langs, libst) ==
    IF lang = "metta" THEN [exc |-> "", langs |-> langs, handle |-> "None"]
    ELSE IF lang \in langs THEN set_language(lang, langs)
    ELSE LET r == load_languages(langs, libst)
         IN  IF r.exc # "" THEN [exc |-> r.exc, langs |-> r.langs, handle |-> "None"]
             ELSE set_language(lang, r.langs)

\* get_language_version: "custom-1.0" for MeTTa without touching the
\* library; otherwise _load_languages on every call, then the version of
\* the loaded language ("version": the number the library reports) or None
\* for a name that is not loaded.
get_language_version(lang, langs, libst) ==
    IF lang = "metta" THEN [exc |-> "", langs |-> langs, value |-> "custom-1.0"]
    ELSE LET r == load_languages(langs, libst)
         IN  IF r.exc # "" THEN [exc |-> r.exc, langs |-> r.langs, value |-> "None"]
             ELSE [exc |-> "", langs |-> r.langs,
                   value |-> IF lang \in r.langs THEN "version" ELSE "None"]

(***************************************************************************)
(* The file systems the walk is run on                                     *)
(***************************************************************************)
\* A file: can it be opened, is its text syntactically valid, is it nested
\* deeper than the interpreter's recursion limit, and the record a correct
\* extraction yields from it.  A directory: can it be listed, its entries.
FileEntry(name, readable, syntax_ok, too_deep, defs) ==
    [kind |-> "file", name |-> name, readable |-> readable,
     syntax_ok |-> syntax_ok, too_deep |-> too_deep, defs |-> defs]

\* A java file that is nested too deep and holds a named method: is the
\* method met before the nesting in the pre-order of extract_definitions'
\* walk (a class with its method, then the nested blocks) or not (the
\* nesting first, or the class inside it).
DeepJavaFile(name, method_first, defs) ==
    [kind |-> "file", name |-> name, readable |-> TRUE, syntax_ok |-> TRUE,
     too_deep |-> TRUE, defs |-> defs, method_first |-> method_first]

DirEntry(name, listable, entries) ==
    [kind |-> "dir", name |-> name, listable |-> listable, entries |-> entries]

\* The variables collected in a function: those of the functions named f.
VarsOf(name) == IF name = <<"f">> THEN <<<<"v">>>> ELSE <<>>

FuncInfo(name) == [name |-> name, line |-> 1, variables |-> VarsOf(name), num_lines |-> 1]
ClassInfo(name, funcs) == [type |-> "class", name |-> name, line |-> 1, functions |-> funcs]

ExtDefs(classes, funcs) == [classes |-> classes, functions |-> funcs]

MettaFunc(name) ==
    [name |-> name, Start_line |-> 1, end_line |-> 1, parameters_Name |-> <<>>, param_count |-> 0]

MettaDefs(funcs) ==
    [functions |-> funcs, executions |-> <<>>, facts |-> <<>>,
     variables |-> <<>>, atomespaces |-> <<>>,
     summary |-> [function_count |-> Len(funcs), expression_count |-> 0,
                  execution_count |-> 0, fact_count |-> 0,
                  variable_count |-> 0, atomespace_count |-> 0]]

NameAMetta == <<"a", ".", "m", "e", "t", "t", "a">>
NameBPy    == <<"b", ".", "p", "y">>
NameCJava  == <<"c", ".", "j", "a", "v", "a">>
NameDTxt   == <<"d", ".", "t", "x", "t">>
NameHidden == <<".", "e", ".", "p", "y">>
NameUpper  == <<"F", ".", "J", "S">>
NameSub    == <<"s", "u", "b">>
NameGit    == <<".", "g", "i", "t">>
NameRoot   == <<"r">>

PyValid    == ExtDefs(<<ClassInfo(<<"A">>, <<FuncInfo(<<"f">>)>>)>>, <<FuncInfo(<<"g">>)>>)
JsValid    == ExtDefs(<<>>, <<FuncInfo(<<"g">>)>>)
JavaMethod == ExtDefs(<<ClassInfo(<<"A">>, <<FuncInfo(<<"m">>)>>)>>, <<>>)
JavaPlain  == ExtDefs(<<ClassInfo(<<"A">>, <<>>)>>, <<>>)
ExtEmpty   == ExtDefs(<<>>, <<>>)
MettaValid == MettaDefs(<<MettaFunc(<<"f">>)>>)
MettaEmpty == MettaDefs(<<>>)

MettaFiles(name) ==
    { FileEntry(name, TRUE, TRUE, FALSE, MettaValid),
      FileEntry(name, TRUE, FALSE, FALSE, MettaEmpty),
      FileEntry(name, FALSE, TRUE, FALSE, MettaValid),
      FileEntry(name, TRUE, TRUE, TRUE, MettaValid) }

PyFiles(name) ==
    { FileEntry(name, TRUE, TRUE, FALSE, PyValid),
      FileEntry(name, TRUE, FALSE, FALSE, ExtEmpty),
      FileEntry(name, FALSE, TRUE, FALSE, PyValid) }

JavaFiles(name) ==
    { FileEntry(name, TRUE, TRUE, FALSE, JavaMethod),
      FileEntry(name, TRUE, TRUE, FALSE, JavaPlain),
      FileEntry(name, TRUE, FALSE, FALSE, ExtEmpty),
      FileEntry(name, FALSE, TRUE, FALSE, JavaMethod),
      DeepJavaFile(name, TRUE, JavaMethod),
      DeepJavaFile(name, FALSE, JavaMethod) }

TxtFiles(name) ==
    { FileEntry(name, TRUE, TRUE, FALSE, ExtEmpty),
      FileEntry(name, FALSE, TRUE, FALSE, ExtEmpty) }

SubEntrySets ==
    SUBSET { FileEntry(NameAMetta, TRUE, TRUE, FALSE, MettaValid),
             FileEntry(NameBPy, FALSE, TRUE, FALSE, PyValid),
             FileEntry(NameHidden, TRUE, TRUE, FALSE, PyValid) }

SubDirs ==
    {DirEntry(NameSub, TRUE, es) : es \in SubEntrySets}
        \cup {DirEntry(NameSub, FALSE, {})}

GitDir == DirEntry(NameGit, TRUE, {FileEntry(NameAMetta, TRUE, TRUE, FALSE, MettaValid)})

RootNames == {NameAMetta, NameBPy, NameCJava, NameDTxt, NameHidden, NameUpper, NameSub, NameGit}

Variants(name) ==
    CASE name = NameAMetta -> MettaFiles(name)
      [] name = NameBPy    -> PyFiles(name)
      [] name = NameCJava  -> JavaFiles(name)
      [] name = NameDTxt   -> TxtFiles(name)
      [] name = NameHidden -> {FileEntry(name, TRUE, TRUE, FALSE, PyValid)}
      [] name = NameUpper  -> {FileEntry(name, TRUE, TRUE, FALSE, JsValid)}
      [] name = NameSub    -> SubDirs
      [] name = NameGit    -> {GitDir}

\* Number of entries of the root directory of the small file systems.
MaxEntries == 2

AllVariants == UNION {Variants(n) : n \in RootNames}

EntrySets ==
    UNION { { {f[n] : n \in N} :
                f \in {g \in [N -> AllVariants] : \A n \in N : g[n] \in Variants(n)} } :
            N \in {M \in SUBSET RootNames : Cardinality(M) <= MaxEntries} }

SmallFS ==
    {DirEntry(NameRoot, TRUE, es) : es \in EntrySets}
        \cup {DirEntry(NameRoot, FALSE, {})}
        \cup MettaFiles(NameAMetta) \cup PyFiles(NameBPy)

Digits == <<"0", "1", "2", "3", "4", "5", "6", "7", "8", "9">>

\* The library as build_language_lib.py leaves it.
LibComplete == [exists |-> TRUE, loadable |-> {"python", "javascript", "java"}]

LibStates ==
    { LibComplete,
      [exists |-> FALSE, loadable |-> {}],
      [exists |-> TRUE,  loadable |-> {"python", "javascript"}] }

\* The working directory of the run: the directory that is scanned.
Cwd == <<"/">> \o fs.name

\* Number of entries of the root directories that are named in every way.
MaxArgEntries == 1

\* The ways the root is named on the command line: its absolute path and,
\* for the files and the smaller directories, the same with two leading
\* "/"; for the smaller directories also with a trailing "/" and as "."
\* (the default of --root).
RootArgs(e) ==
    IF e.kind = "file"
    THEN {<<"/">> \o e.name, <<"/", "/">> \o e.name}
    ELSE IF Cardinality(e.entries) <= MaxArgEntries
    THEN {<<"/">> \o e.name, <<"/">> \o e.name \o <<"/">>, <<".">>, <<"/", "/">> \o e.name}
    ELSE {<<"/">> \o e.name}

(***************************************************************************)
(* walker.py                                                               *)
(***************************************************************************)
\* The exception, if any, that the try block of process_path meets for one
\* file, in the order of its statements: open/read, get_parser, parse_code,
\* extract_definitions.  tree-sitter and the MeTTa parser accept any text;
\* the recursive descent and the recursive walks exceed the recursion limit
\* on a file nested too deep; extract_definitions for java reads the
\* undefined name `name_name` at the first named method or constructor.
\* Both come from the same pre-order walk for a java file: the one that is
\* met first is raised.
HasNamedFunction(defs) ==
    \/ Len(defs.functions) > 0
    \/ HasKey(defs, "classes") /\ \E i \in 1..Len(defs.classes) : Len(defs.classes[i].functions) > 0

\* The walk of a file that is nested too deep meets a named method before
\* the nesting.
MethodFirst(e) == DictGet(e, "method_first", FALSE)

TryBlock(e, lang, langs, libst) ==
    IF ~e.readable THEN [exc |-> "PermissionError: open", langs |-> langs]
    ELSE LET p == get_parser(lang, langs, libst)
         IN  IF p.exc # "" THEN [exc |-> p.exc, langs |-> p.langs]
             ELSE IF lang = "java" /\ HasNamedFunction(e.defs) /\ (e.too_deep => MethodFirst(e))
                  THEN [exc |-> "NameError: name 'name_name' is not defined", langs |-> p.langs]
             ELSE IF e.too_deep
                  THEN [exc |-> "RecursionError: maximum recursion depth exceeded", langs |-> p.langs]
             ELSE [exc |-> "", langs |-> p.langs]

\* Faulty variant: the exception handler is missing, the exception leaves process_path.
ProcessFileNoCatch(e, path, langs, libst) ==
    LET info0 == [name |-> basename(path), path |-> abspath(path, Cwd), type |-> "file"]
        lang  == detect_language(path)
        t     == TryBlock(e, lang, langs, libst)
    IN  IF lang = NoLang THEN [info |-> info0, langs |-> langs, exc |-> "", escaped |-> ""]
        ELSE IF t.exc = ""
             THEN [info |-> info0 @@ [language |-> lang, definitions |-> e.defs,
                                      parser_type |-> IF is_metta_language(lang)
                                                      THEN "custom_metta" ELSE "tree_sitter"],
                   langs |-> t.langs, exc |-> "", escaped |-> ""]
             ELSE [info |-> info0, langs |-> t.langs, exc |-> t.exc, escaped |-> t.exc]

\* Faulty variant: file_info is updated before extraction has succeeded.
ProcessFileEarlyUpdate(e, path, langs, libst) ==
    LET info0 == [name |-> basename(path), path |-> abspath(path, Cwd), type |-> "file"]
        lang  == detect_language(path)
        t     == TryBlock(e, lang, langs, libst)
        upd   == info0 @@ [language |-> lang, definitions |-> e.defs,
                           parser_type |-> IF is_metta_language(lang)
                                           THEN "custom_metta" ELSE "tree_sitter"]
    IN  IF lang = NoLang THEN [info |-> info0, langs |-> langs, exc |-> "", escaped |-> ""]
        ELSE IF t.exc = ""
             THEN [info |-> upd, langs |-> t.langs, exc |-> "", escaped |-> ""]
             ELSE [info |-> upd @@ [parse_error |-> t.exc], langs |-> t.langs,
                   exc |-> t.exc, escaped |-> ""]

\* Faulty variant: a syntactically invalid file is reported as a parse error.
ProcessFileStrict(e, path, langs, libst) ==
    LET info0 == [name |-> basename(path), path |-> abspath(path, Cwd), type |-> "file"]
        lang  == detect_language(path)
        t     == TryBlock(e, lang, langs, libst)
        exc   == IF t.exc = "" /\ ~e.syntax_ok THEN "SyntaxError" ELSE t.exc
    IN  IF lang = NoLang THEN [info |-> info0, langs |-> langs, exc |-> "", escaped |-> ""]
        ELSE IF exc = ""
             THEN [info |-> info0 @@ [language |-> lang, definitions |-> e.defs,
                                      parser_type |-> IF is_metta_language(lang)
                                                      THEN "custom_metta" ELSE "tree_sitter"],
                   langs |-> t.langs, exc |-> "", escaped |-> ""]
             ELSE [info |-> info0 @@ [parse_error |-> exc], langs |-> t.langs,
                   exc |-> exc, escaped |-> ""]

\* The file branch of process_path: the node of one file, the registry
\* after it, the exception its try block met (exc) and the exception that
\* left process_path (escaped).
ProcessFile(e, path, langs, libst) ==
    LET info0 == [name |-> basename(path), path |-> abspath(path, Cwd), type |-> "file"]
        lang  == detect_language(path)
        t     == TryBlock(e, lang, langs, libst)
    IN  IF lang = NoLang THEN [info |-> info0, langs |-> langs, exc |-> "", escaped |-> ""]
        ELSE IF t.exc = ""
             THEN [info |-> info0 @@ [language |-> lang, definitions |-> e.defs,
                                      parser_type |-> IF is_metta_language(lang)
                                                      THEN "custom_metta" ELSE "tree_sitter"],
                   langs |-> t.langs, exc |-> "", escaped |-> ""]
             ELSE [info |-> info0 @@ [parse_error |-> t.exc], langs |-> t.langs,
                   exc |-> t.exc, escaped |-> ""]

\* The entries process_path visits in a directory, in visiting order:
\* sorted(os.listdir(path)) without the names that start with a dot.
VisibleNames(entries) == {e.name : e \in {x \in entries : x.name[1] # "."}}

EntryNamed(entries, n) == CHOOSE e \in entries : e.name = n

\* Faulty variant: the hidden entries are visited as well.
ListDirAll(entries) ==
    LET names == Sorted({e.name : e \in entries})
    IN  [i \in 1..Len(names) |-> EntryNamed(entries, names[i])]

ListDir(entries) ==
    LET names == Sorted(VisibleNames(entries))
    IN  [i \in 1..Len(names) |-> EntryNamed(entries, names[i])]

Top == wstack[Len(wstack)]

\* The argument of process_path for an entry: root_path for the root,
\* os.path.join(path, child) for a child of the directory visited as path.
ChildPath(frame, e) ==
    IF frame.kind = "build_tree" THEN frame.arg
    ELSE join(frame.arg, e.name)

SetTop(stack, frame) == [stack EXCEPT ![Len(stack)] = frame]

Pop(stack) == SubSeq(stack, 1, Len(stack) - 1)

\* process_path enters a directory: os.listdir raises outside any try block
\* when the directory cannot be listed.
WalkDir ==
    /\ pc = "walk"
    /\ wstack # <<>>
    /\ Top.todo # <<>>
    /\ Head(Top.todo).kind = "dir"
    /\ LET e    == Head(Top.todo)
           path == ChildPath(Top, e)
       IN  IF e.listable
           THEN /\ wstack' = Append(SetTop(wstack, [Top EXCEPT !.todo = Tail(@)]),
                                    [kind |-> "folder", arg |-> path,
                                     path |-> abspath(path, Cwd), name |-> basename(path),
                                     todo |-> ListDir(e.entries), children |-> <<>>])
                /\ UNCHANGED <<raised, pc>>
           ELSE /\ raised' = "PermissionError: listdir"
                /\ pc' = "crashed"
                /\ wstack' = <<>>
    /\ UNCHANGED <<fs, lib, mettaOnly, LANGS, results, stats, saved, failed, walked, tree>>
    /\ UNCHANGED <<graphVars, outsideWalk>>

\* The file branch of process_path for the entry e, whose file is read,
\* parsed and extracted as e tells.
FileProcessed(e) ==
    /\ LET path == ChildPath(Top, e)
           r    == ProcessFile(e, path, LANGS, lib)
       IN  /\ LANGS' = r.langs
           /\ failed' = IF r.exc # ""
                        THEN failed \cup {[path |-> r.info.path, exc |-> r.exc]}
                        ELSE failed
           /\ IF r.escaped = ""
              THEN /\ wstack' = SetTop(wstack, [Top EXCEPT !.todo = Tail(@),
                                                           !.children = Append(@, r.info)])
                   /\ UNCHANGED <<raised, pc>>
              ELSE /\ raised' = r.escaped
                   /\ pc' = "crashed"
                   /\ wstack' = <<>>
    /\ UNCHANGED <<fs, lib, mettaOnly, results, stats, saved, walked, tree>>

\* process_path on a file whose parse and extraction are given with the entry.
WalkFile ==
    /\ pc = "walk"
    /\ wstack # <<>>
    /\ Top.todo # <<>>
    /\ Head(Top.todo).kind = "file"
    /\ ~HasKey(Head(Top.todo), "text")
    /\ FileProcessed(Head(Top.todo))
    /\ UNCHANGED <<graphVars, outsideWalk>>

\* process_path returns: a folder node to the call that listed it, or the
\* root's node to main (walk_and_parse returns it).
WalkReturn ==
    /\ pc = "walk"
    /\ wstack # <<>>
    /\ Top.todo = <<>>
    /\ IF Top.kind = "build_tree"
       THEN /\ results' = Just(Top.children[1])
            /\ walked' = Just(Top.children[1])
            /\ tree' = Just(Top.children[1])
            /\ wstack' = <<>>
            /\ pc' = IF mettaOnly THEN "filter" ELSE "save"
       ELSE /\ LET node   == [name |-> Top.name, path |-> Top.path, type |-> "folder",
                              children |-> Top.children]
                   parent == wstack[Len(wstack) - 1]
               IN  wstack' = SetTop(Pop(wstack), [parent EXCEPT !.children = Append(@, node)])
            /\ UNCHANGED <<results, walked, tree, pc>>
    /\ UNCHANGED <<fs, lib, mettaOnly, LANGS, raised, stats, saved, failed>>
    /\ UNCHANGED <<graphVars, outsideWalk>>

(***************************************************************************)
(* metta_parser.py: MeTTaLexer                                             *)
(***************************************************************************)
LetterChars ==
    { "a", "b", "c", "d", "e", "f", "g", "h", "i", "j", "k", "l", "m", "n", "o", "p", "q",
      "r", "s", "t", "u", "v", "w", "x", "y", "z",
      "A", "B", "C", "D", "E", "F", "G", "H", "I", "J", "K", "L", "M", "N", "O", "P", "Q",
      "R", "S", "T", "U", "V", "W", "X", "Y", "Z", "_" }

\* A text is a sequence of characters.  A character is written as itself
\* when a string can hold it and as "U+" with its code point in four or
\* five hexadecimal digits when it cannot: "U+0663" is ARABIC-INDIC DIGIT
\* THREE, "U+000B" the vertical tab.

\* [0-9]
AsciiDigits == {"0", "1", "2", "3", "4", "5", "6", "7", "8", "9"}

\* The decimal digits (category Nd) past the ASCII ones.
UnicodeDigits ==
    {
      "U+0660", "U+0661", "U+0662", "U+0663", "U+0664", "U+0665", "U+0666", "U+0667", "U+0668", "U+0669",
      "U+06F0", "U+06F1", "U+06F2", "U+06F3", "U+06F4", "U+06F5", "U+06F6", "U+06F7", "U+06F8", "U+06F9",
      "U+07C0", "U+07C1", "U+07C2", "U+07C3", "U+07C4", "U+07C5", "U+07C6", "U+07C7", "U+07C8", "U+07C9",
      "U+0966", "U+0967", "U+0968", "U+0969", "U+096A", "U+096B", "U+096C", "U+096D", "U+096E", "U+096F",
      "U+09E6", "U+09E7", "U+09E8", "U+09E9", "U+09EA", "U+09EB", "U+09EC", "U+09ED", "U+09EE", "U+09EF",
      "U+0A66", "U+0A67", "U+0A68", "U+0A69", "U+0A6A", "U+0A6B", "U+0A6C", "U+0A6D", "U+0A6E", "U+0A6F",
      "U+0AE6", "U+0AE7", "U+0AE8", "U+0AE9", "U+0AEA", "U+0AEB", "U+0AEC", "U+0AED", "U+0AEE", "U+0AEF",
      "U+0B66", "U+0B67", "U+0B68", "U+0B69", "U+0B6A", "U+0B6B", "U+0B6C", "U+0B6D", "U+0B6E", "U+0B6F",
      "U+0BE6", "U+0BE7", "U+0BE8", "U+0BE9", "U+0BEA", "U+0BEB", "U+0BEC", "U+0BED", "U+0BEE", "U+0BEF",
      "U+0C66", "U+0C67", "U+0C68", "U+0C69", "U+0C6A", "U+0C6B", "U+0C6C", "U+0C6D", "U+0C6E", "U+0C6F",
      "U+0CE6", "U+0CE7", "U+0CE8", "U+0CE9", "U+0CEA", "U+0CEB", "U+0CEC", "U+0CED", "U+0CEE", "U+0CEF",
      "U+0D66", "U+0D67", "U+0D68", "U+0D69", "U+0D6A", "U+0D6B", "U+0D6C", "U+0D6D", "U+0D6E", "U+0D6F",
      "U+0DE6", "U+0DE7", "U+0DE8", "U+0DE9", "U+0DEA", "U+0DEB", "U+0DEC", "U+0DED", "U+0DEE", "U+0DEF",
      "U+0E50", "U+0E51", "U+0E52", "U+0E53", "U+0E54", "U+0E55", "U+0E56", "U+0E57", "U+0E58", "U+0E59",
      "U+0ED0", "U+0ED1", "U+0ED2", "U+0ED3", "U+0ED4", "U+0ED5", "U+0ED6", "U+0ED7", "U+0ED8", "U+0ED9",
      "U+0F20", "U+0F21", "U+0F22", "U+0F23", "U+0F24", "U+0F25", "U+0F26", "U+0F27", "U+0F28", "U+0F29",
      "U+1040", "U+1041", "U+1042", "U+1043", "U+1044", "U+1045", "U+1046", "U+1047", "U+1048", "U+1049",
      "U+1090", "U+1091", "U+1092", "U+1093", "U+1094", "U+1095", "U+1096", "U+1097", "U+1098", "U+1099",
      "U+17E0", "U+17E1", "U+17E2", "U+17E3", "U+17E4", "U+17E5", "U+17E6", "U+17E7", "U+17E8", "U+17E9",
      "U+1810", "U+1811", "U+1812", "U+1813", "U+1814", "U+1815", "U+1816", "U+1817", "U+1818", "U+1819",
      "U+1946", "U+1947", "U+1948", "U+1949", "U+194A", "U+194B", "U+194C", "U+194D", "U+194E", "U+194F",
      "U+19D0", "U+19D1", "U+19D2", "U+19D3", "U+19D4", "U+19D5", "U+19D6", "U+19D7", "U+19D8", "U+19D9",
      "U+1A80", "U+1A81", "U+1A82", "U+1A83", "U+1A84", "U+1A85", "U+1A86", "U+1A87", "U+1A88", "U+1A89",
      "U+1A90", "U+1A91", "U+1A92", "U+1A93", "U+1A94", "U+1A95", "U+1A96", "U+1A97", "U+1A98", "U+1A99",
      "U+1B50", "U+1B51", "U+1B52", "U+1B53", "U+1B54", "U+1B55", "U+1B56", "U+1B57", "U+1B58", "U+1B59",
      "U+1BB0", "U+1BB1", "U+1BB2", "U+1BB3", "U+1BB4", "U+1BB5", "U+1BB6", "U+1BB7", "U+1BB8", "U+1BB9",
      "U+1C40", "U+1C41", "U+1C42", "U+1C43", "U+1C44", "U+1C45", "U+1C46", "U+1C47", "U+1C48", "U+1C49",
      "U+1C50", "U+1C51", "U+1C52", "U+1C53", "U+1C54", "U+1C55", "U+1C56", "U+1C57", "U+1C58", "U+1C59",
      "U+A620", "U+A621", "U+A622", "U+A623", "U+A624", "U+A625", "U+A626", "U+A627", "U+A628", "U+A629",
      "U+A8D0", "U+A8D1", "U+A8D2", "U+A8D3", "U+A8D4", "U+A8D5", "U+A8D6", "U+A8D7", "U+A8D8", "U+A8D9",
      "U+A900", "U+A901", "U+A902", "U+A903", "U+A904", "U+A905", "U+A906", "U+A907", "U+A908", "U+A909",
      "U+A9D0", "U+A9D1", "U+A9D2", "U+A9D3", "U+A9D4", "U+A9D5", "U+A9D6", "U+A9D7", "U+A9D8", "U+A9D9",
      "U+A9F0", "U+A9F1", "U+A9F2", "U+A9F3", "U+A9F4", "U+A9F5", "U+A9F6", "U+A9F7", "U+A9F8", "U+A9F9",
      "U+AA50", "U+AA51", "U+AA52", "U+AA53", "U+AA54", "U+AA55", "U+AA56", "U+AA57", "U+AA58", "U+AA59",
      "U+ABF0", "U+ABF1", "U+ABF2", "U+ABF3", "U+ABF4", "U+ABF5", "U+ABF6", "U+ABF7", "U+ABF8", "U+ABF9",
      "U+FF10", "U+FF11", "U+FF12", "U+FF13", "U+FF14", "U+FF15", "U+FF16", "U+FF17", "U+FF18", "U+FF19",
      "U+104A0", "U+104A1", "U+104A2", "U+104A3", "U+104A4", "U+104A5", "U+104A6", "U+104A7", "U+104A8", "U+104A9",
      "U+10D30", "U+10D31", "U+10D32", "U+10D33", "U+10D34", "U+10D35", "U+10D36", "U+10D37", "U+10D38", "U+10D39",
      "U+11066", "U+11067", "U+11068", "U+11069", "U+1106A", "U+1106B", "U+1106C", "U+1106D", "U+1106E", "U+1106F",
      "U+110F0", "U+110F1", "U+110F2", "U+110F3", "U+110F4", "U+110F5", "U+110F6", "U+110F7", "U+110F8", "U+110F9",
      "U+11136", "U+11137", "U+11138", "U+11139", "U+1113A", "U+1113B", "U+1113C", "U+1113D", "U+1113E", "U+1113F",
      "U+111D0", "U+111D1", "U+111D2", "U+111D3", "U+111D4", "U+111D5", "U+111D6", "U+111D7", "U+111D8", "U+111D9",
      "U+112F0", "U+112F1", "U+112F2", "U+112F3", "U+112F4", "U+112F5", "U+112F6", "U+112F7", "U+112F8", "U+112F9",
      "U+11450", "U+11451", "U+11452", "U+11453", "U+11454", "U+11455", "U+11456", "U+11457", "U+11458", "U+11459",
      "U+114D0", "U+114D1", "U+114D2", "U+114D3", "U+114D4", "U+114D5", "U+114D6", "U+114D7", "U+114D8", "U+114D9",
      "U+11650", "U+11651", "U+11652", "U+11653", "U+11654", "U+11655", "U+11656", "U+11657", "U+11658", "U+11659",
      "U+116C0", "U+116C1", "U+116C2", "U+116C3", "U+116C4", "U+116C5", "U+116C6", "U+116C7", "U+116C8", "U+116C9",
      "U+11730", "U+11731", "U+11732", "U+11733", "U+11734", "U+11735", "U+11736", "U+11737", "U+11738", "U+11739",
      "U+118E0", "U+118E1", "U+118E2", "U+118E3", "U+118E4", "U+118E5", "U+118E6", "U+118E7", "U+118E8", "U+118E9",
      "U+11950", "U+11951", "U+11952", "U+11953", "U+11954", "U+11955", "U+11956", "U+11957", "U+11958", "U+11959",
      "U+11C50", "U+11C51", "U+11C52", "U+11C53", "U+11C54", "U+11C55", "U+11C56", "U+11C57", "U+11C58", "U+11C59",
      "U+11D50", "U+11D51", "U+11D52", "U+11D53", "U+11D54", "U+11D55", "U+11D56", "U+11D57", "U+11D58", "U+11D59",
      "U+11DA0", "U+11DA1", "U+11DA2", "U+11DA3", "U+11DA4", "U+11DA5", "U+11DA6", "U+11DA7", "U+11DA8", "U+11DA9",
      "U+16A60", "U+16A61", "U+16A62", "U+16A63", "U+16A64", "U+16A65", "U+16A66", "U+16A67", "U+16A68", "U+16A69",
      "U+16AC0", "U+16AC1", "U+16AC2", "U+16AC3", "U+16AC4", "U+16AC5", "U+16AC6", "U+16AC7", "U+16AC8", "U+16AC9",
      "U+16B50", "U+16B51", "U+16B52", "U+16B53", "U+16B54", "U+16B55", "U+16B56", "U+16B57", "U+16B58", "U+16B59",
      "U+1D7CE", "U+1D7CF", "U+1D7D0", "U+1D7D1", "U+1D7D2", "U+1D7D3", "U+1D7D4", "U+1D7D5", "U+1D7D6", "U+1D7D7",
      "U+1D7D8", "U+1D7D9", "U+1D7DA", "U+1D7DB", "U+1D7DC", "U+1D7DD", "U+1D7DE", "U+1D7DF", "U+1D7E0", "U+1D7E1",
      "U+1D7E2", "U+1D7E3", "U+1D7E4", "U+1D7E5", "U+1D7E6", "U+1D7E7", "U+1D7E8", "U+1D7E9", "U+1D7EA", "U+1D7EB",
      "U+1D7EC", "U+1D7ED", "U+1D7EE", "U+1D7EF", "U+1D7F0", "U+1D7F1", "U+1D7F2", "U+1D7F3", "U+1D7F4", "U+1D7F5",
      "U+1D7F6", "U+1D7F7", "U+1D7F8", "U+1D7F9", "U+1D7FA", "U+1D7FB", "U+1D7FC", "U+1D7FD", "U+1D7FE", "U+1D7FF",
      "U+1E140", "U+1E141", "U+1E142", "U+1E143", "U+1E144", "U+1E145", "U+1E146", "U+1E147", "U+1E148", "U+1E149",
      "U+1E2F0", "U+1E2F1", "U+1E2F2", "U+1E2F3", "U+1E2F4", "U+1E2F5", "U+1E2F6", "U+1E2F7", "U+1E2F8", "U+1E2F9",
      "U+1E950", "U+1E951", "U+1E952", "U+1E953", "U+1E954", "U+1E955", "U+1E956", "U+1E957", "U+1E958", "U+1E959",
      "U+1FBF0", "U+1FBF1", "U+1FBF2", "U+1FBF3", "U+1FBF4", "U+1FBF5", "U+1FBF6", "U+1FBF7", "U+1FBF8", "U+1FBF9" }

\* \d of a str pattern: every decimal digit of Unicode.
DigitChars == AsciiDigits \cup UnicodeDigits

IdChars == LetterChars \cup AsciiDigits \cup {"-"}

OperatorChars == {"+", "-", "*", "/", ">", "<", "!", "="}

\* The end of the longest run of characters of S that starts at i: the
\* first index from i on that is past the text or holds a character not in S.
RunEnd(t, i, S) ==
    CHOOSE j \in i..(Len(t) + 1) :
        /\ j = Len(t) + 1 \/ t[j] \notin S
        /\ \A k \in i..(j - 1) : t[k] \in S

\* r'"([^"\\]|\\.)*"' from just after the opening quote: the index after
\* the closing quote, or 0 when the text holds no closing quote (an escape
\* takes the next character, which must not be a newline).
RECURSIVE StringEnd(_, _)
StringEnd(t, j) ==
    IF j > Len(t) THEN 0
    ELSE IF t[j] = "\"" THEN j + 1
    ELSE IF t[j] = "\\"
         THEN IF j + 1 <= Len(t) /\ t[j + 1] # "\n" THEN StringEnd(t, j + 2) ELSE 0
    ELSE StringEnd(t, j + 1)

\* r'-?\d+(\.\d+)?'
NumberEnd(t, i) ==
    LET s == IF t[i] = "-" THEN i + 1 ELSE i
    IN  IF s <= Len(t) /\ t[s] \in DigitChars
        THEN LET e == RunEnd(t, s, DigitChars)
             IN  IF e + 1 <= Len(t) /\ t[e] = "." /\ t[e + 1] \in DigitChars
                 THEN RunEnd(t, e + 1, DigitChars)
                 ELSE e
        ELSE 0

\* r'[a-zA-Z_][a-zA-Z0-9_-]*[!]?'
AtomEnd(t, i) ==
    IF t[i] \in LetterChars
    THEN LET e == RunEnd(t, i + 1, IdChars)
         IN  IF e <= Len(t) /\ t[e] = "!" THEN e + 1 ELSE e
    ELSE 0

\* r'&[a-zA-Z_][a-zA-Z0-9_-]*' and r'\$[a-zA-Z_][a-zA-Z0-9_-]*'
SigilEnd(t, i, sigil) ==
    IF t[i] = sigil /\ i + 1 <= Len(t) /\ t[i + 1] \in LetterChars
    THEN RunEnd(t, i + 2, IdChars)
    ELSE 0

TOKEN_PATTERNS ==
    << "COMMENT", "EXECUTE", "LPAREN", "RPAREN", "LBRACKET", "RBRACKET", "ATOMESPACE",
       "VARIABLE", "STRING", "NUMBER", "EQUALS", "OPERATOR", "ATOM", "WHITESPACE", "NEWLINE" >>

\* Where the pattern `name` ends when matched at index i of t (the index
\* after its last character), 0 when it does not match there.
PatternEnd(name, t, i) ==
    CASE name = "COMMENT"    -> IF t[i] = ";"
                                THEN RunEnd(t, i + 1, {t[k] : k \in 1..Len(t)} \ {"\n"}) ELSE 0
      [] name = "EXECUTE"    -> IF t[i] = "!" THEN i + 1 ELSE 0
      [] name = "LPAREN"     -> IF t[i] = "(" THEN i + 1 ELSE 0
      [] name = "RPAREN"     -> IF t[i] = ")" THEN i + 1 ELSE 0
      [] name = "LBRACKET"   -> IF t[i] = "[" THEN i + 1 ELSE 0
      [] name = "RBRACKET"   -> IF t[i] = "]" THEN i + 1 ELSE 0
      [] name = "ATOMESPACE" -> SigilEnd(t, i, "&")
      [] name = "VARIABLE"   -> SigilEnd(t, i, "$")
      [] name = "STRING"     -> IF t[i] = "\"" THEN StringEnd(t, i + 1) ELSE 0
      [] name = "NUMBER"     -> NumberEnd(t, i)
      [] name = "EQUALS"     -> IF t[i] = "=" THEN i + 1 ELSE 0
      [] name = "OPERATOR"   -> IF t[i] \in OperatorChars THEN RunEnd(t, i, OperatorChars) ELSE 0
      [] name = "ATOM"       -> AtomEnd(t, i)
      [] name = "WHITESPACE" -> IF t[i] \in {" ", "\t"} THEN RunEnd(t, i, {" ", "\t"}) ELSE 0
      [] name = "NEWLINE"    -> IF t[i] = "\n" THEN i + 1 ELSE 0

Matching(t, i) == {k \in 1..Len(TOKEN_PATTERNS) : PatternEnd(TOKEN_PATTERNS[k], t, i) > 0}

\* Faulty variant: of the patterns that match, the last listed one wins.
FirstAlternativeLast(t, i) == CHOOSE k \in Matching(t, i) : \A j \in Matching(t, i) : j <= k

\* The alternation of token_regex at index i: the first listed pattern
\* that matches there is the one that matches.
FirstAlternative(t, i) == CHOOSE k \in Matching(t, i) : \A j \in Matching(t, i) : k <= j

\* Faulty variant: the scan gives up at the first character no pattern matches.
NextMatchAtStop(t, pos) ==
    IF pos <= Len(t) /\ Matching(t, pos) # {} THEN pos ELSE 0

\* re.finditer: the next match is at the first index from pos on where a
\* pattern matches; the characters passed over belong to no match.
NextMatchAt(t, pos) ==
    LET starts == {p \in pos..Len(t) : Matching(t, p) # {}}
    IN  IF starts = {} THEN 0 ELSE CHOOSE p \in starts : \A q \in starts : p <= q

MeTTaToken(type, value, line, column) ==
    [type |-> type, value |-> value, line |-> line, column |-> column]

\* tokenize's locals before the loop.  pos is the 1-based index at which
\* finditer resumes; line_start is the 0-based offset the code keeps;
\* skipped (history) collects the characters finditer passed over.
LexStart ==
    [pos |-> 1, tokens |-> <<>>, line_num |-> 1, line_start |-> 0,
     skipped |-> <<>>, done |-> FALSE]

\* One iteration of `for match in self.pattern.finditer(code)`, or the end
\* of the loop when finditer has no further match.
LexIter(t, st) ==
    LET p == NextMatchAt(t, st.pos)
    IN  IF p = 0
        THEN [st EXCEPT !.done = TRUE, !.pos = Len(t) + 1,
                        !.skipped = @ \o SubSeq(t, st.pos, Len(t))]
        ELSE LET type  == TOKEN_PATTERNS[FirstAlternative(t, p)]
                 e     == PatternEnd(type, t, p)
                 value == SubSeq(t, p, e - 1)
                 st1   == [st EXCEPT !.pos = e, !.skipped = @ \o SubSeq(t, st.pos, p - 1)]
             IN  IF type = "NEWLINE"
                 THEN [st1 EXCEPT !.line_num = @ + 1, !.line_start = e - 1]
                 ELSE IF type = "WHITESPACE" THEN st1
                 ELSE [st1 EXCEPT !.tokens =
                          Append(@, MeTTaToken(type, value, st.line_num, (p - 1) - st.line_start))]

RECURSIVE LexRun(_, _)
LexRun(t, st) == IF st.done THEN st ELSE LexRun(t, LexIter(t, st))

\* MeTTaLexer.tokenize(code)
tokenize(t) == LexRun(t, LexStart).tokens

\* The loop of tokenize, one finditer match at a time.
LexStep ==
    /\ ~lex.done
    /\ NextMatchAt(code, lex.pos) # 0
    /\ lex' = LexIter(code, lex)
    /\ UNCHANGED code
    /\ UNCHANGED outsideLex

\* finditer is exhausted: tokenize returns tokens.
LexReturn ==
    /\ ~lex.done
    /\ NextMatchAt(code, lex.pos) = 0
    /\ lex' = LexIter(code, lex)
    /\ UNCHANGED code
    /\ UNCHANGED outsideLex

\* No tokenize call is being followed.
LexIdle ==
    /\ code = <<>>
    /\ lex = LexStart

(***************************************************************************)
(* metta_parser.py: MeTTaNode                                              *)
(***************************************************************************)
\* MeTTaNode.__init__; end_line = 0 stands for the default None (both are
\* replaced by line in `end_line or line`).  Text values are sequences of
\* characters.
MeTTaNode(node_type, value, line, end_line) ==
    LET el == IF end_line = 0 THEN line ELSE end_line
    IN  [type |-> node_type, value |-> value, line |-> line, end_line |-> el,
         children |-> <<>>, start_point |-> <<line - 1, 0>>, end_point |-> <<el - 1, 0>>]

\* Faulty variant: the child is attached and the parent's end is left alone.
add_child_only(node, child) == [node EXCEPT !.children = Append(@, child)]

\* MeTTaNode.add_child
add_child(node, child) ==
    LET n1 == [node EXCEPT !.children = Append(@, child)]
    IN  IF child.end_line > node.end_line
        THEN [n1 EXCEPT !.end_line = child.end_line, !.end_point = <<child.end_line - 1, 0>>]
        ELSE n1

(***************************************************************************)
(* metta_parser.py: MeTTaParser                                            *)
(*                                                                         *)
(* The recursive descent is followed one token-consuming step at a time.   *)
(* pstack holds one frame per call that has a node under construction:     *)
(* the root of parse ("program"), _parse_execution waiting for its         *)
(* expression ("execution"), _parse_function_call ("call"),                *)
(* _parse_function_definition ("definition") and _parse_function_signature *)
(* ("signature").  A finished node is handed to the frame below, which is  *)
(* the caller's add_child.                                                 *)
(***************************************************************************)
\* open (history) is the number of the "(" token the frame's form began with.
Frame(kind, node, open) == [kind |-> kind, node |-> node, line |-> node.line, open |-> open]

ExecutionFrame(line) == [kind |-> "execution", node |-> Nothing, line |-> line, open |-> 0]

\* _is_at_end
is_at_end(toks, cur) == cur >= Len(toks)

\* _peek, where not at the end (current is a 0-based index)
peek(toks, cur) == toks[cur + 1]

\* _match
match(toks, cur, types) == ~is_at_end(toks, cur) /\ peek(toks, cur).type \in types

\* The characters str.strip() removes: those for which str.isspace() holds.
Whitespace ==
    { "\t", "\n", "U+000B", "\f", "\r", "U+001C", "U+001D", "U+001E", "U+001F", " ",
      "U+0085", "U+00A0", "U+1680", "U+2000", "U+2001", "U+2002", "U+2003", "U+2004",
      "U+2005", "U+2006", "U+2007", "U+2008", "U+2009", "U+200A", "U+2028", "U+2029",
      "U+202F", "U+205F", "U+3000" }

\* str.strip() of a token text
RECURSIVE strip(_)
strip(v) ==
    IF v = <<>> THEN v
    ELSE IF v[1] \in Whitespace THEN strip(Tail(v))
    ELSE IF v[Len(v)] \in Whitespace THEN strip(SubSeq(v, 1, Len(v) - 1))
    ELSE v

\* The caller receives the node its callee returned.  _parse_execution
\* wraps it in an execution node and returns that to the loop of parse;
\* every other caller attaches it to its own node.
Deliver(stack, node) ==
    LET top == stack[Len(stack)]
    IN  IF top.kind = "execution"
        THEN LET exec_node == add_child(MeTTaNode("execution", <<"!">>, top.line, node.end_line), node)
                 below     == Pop(stack)
                 caller    == below[Len(below)]
             IN  SetTop(below, [caller EXCEPT !.node = add_child(@, exec_node)])
        ELSE SetTop(stack, [top EXCEPT !.node = add_child(@, node)])

\* _parse_atom
parse_atom(token) ==
    LET node_type ==
            CASE token.type = "VARIABLE"   -> "variable"
              [] token.type = "ATOMESPACE" -> "atomespace"
              [] token.type = "STRING"     -> "string"
              [] token.type = "NUMBER"     -> "number"
              [] token.type = "OPERATOR"   -> "operator"
              [] token.type = "ATOM"       -> "atom"
              [] OTHER                     -> "unknown"
    IN  MeTTaNode(node_type, token.value, token.line, 0)

\* _parse_comment
parse_comment(token) == MeTTaNode("comment", strip(token.value), token.line, 0)

\* _parse_function_signature up to its parameter loop; cur is at its "(".
\* With nothing or ")" after the "(" it returns None and leaves the ")"
\* to its caller.
parse_function_signature(toks, stack, cur) ==
    LET c1 == cur + 1
    IN  IF is_at_end(toks, c1) \/ match(toks, c1, {"RPAREN"})
        THEN [stack |-> stack, cur |-> c1]
        ELSE LET name_token == peek(toks, c1)
                 sig_node   == MeTTaNode("function_signature", name_token.value, name_token.line, 0)
             IN  [stack |-> Append(stack, Frame("signature", sig_node, c1)), cur |-> c1 + 1]

\* _parse_function_definition up to its body loop; cur is at the "=".
parse_function_definition(toks, stack, cur, start_line) ==
    LET c1        == cur + 1
        func_node == MeTTaNode("function_definition", <<>>, start_line, 0)
        st1       == Append(stack, Frame("definition", func_node, cur))
    IN  IF match(toks, c1, {"LPAREN"})
        THEN parse_function_signature(toks, st1, c1)
        ELSE [stack |-> st1, cur |-> c1]

\* _parse_function_call up to its element loop.
parse_function_call(stack, cur, start_line) ==
    [stack |-> Append(stack, Frame("call", MeTTaNode("expression", <<>>, start_line, 0), cur)),
     cur |-> cur]

\* _parse_expression up to the loop of the form it opens; cur is at its "(".
parse_expression(toks, stack, cur) ==
    LET start_line == peek(toks, cur).line
        c1         == cur + 1
    IN  IF is_at_end(toks, c1) \/ match(toks, c1, {"RPAREN"})
        THEN [stack |-> Deliver(stack, MeTTaNode("empty_expression", <<>>, start_line, 0)),
              cur   |-> IF match(toks, c1, {"RPAREN"}) THEN c1 + 1 ELSE c1]
        ELSE IF peek(toks, c1).type = "EQUALS"
             THEN parse_function_definition(toks, stack, c1, start_line)
             ELSE parse_function_call(stack, c1, start_line)

\* Faulty variant: a comment inside a form is consumed and gives no node.
parse_any_expression_skip_comments(toks, stack, cur) ==
    IF peek(toks, cur).type = "LPAREN"
    THEN parse_expression(toks, stack, cur)
    ELSE IF peek(toks, cur).type = "COMMENT"
         THEN [stack |-> stack, cur |-> cur + 1]
         ELSE [stack |-> Deliver(stack, parse_atom(peek(toks, cur))), cur |-> cur + 1]

\* _parse_any_expression, where a token is left
parse_any_expression(toks, stack, cur) ==
    IF peek(toks, cur).type = "LPAREN"
    THEN parse_expression(toks, stack, cur)
    ELSE [stack |-> Deliver(stack, parse_atom(peek(toks, cur))), cur |-> cur + 1]

\* Faulty variant: a "!" that no "(" follows is not consumed.
parse_execution_no_advance(toks, stack, cur) ==
    LET execute_token == peek(toks, cur)
        c1            == cur + 1
    IN  IF match(toks, c1, {"LPAREN"})
        THEN parse_expression(toks, Append(stack, ExecutionFrame(execute_token.line)), c1)
        ELSE [stack |-> Deliver(stack, MeTTaNode("execution", <<"!">>, execute_token.line, 0)),
              cur   |-> cur]

\* _parse_execution; cur is at the "!".
parse_execution(toks, stack, cur) ==
    LET execute_token == peek(toks, cur)
        c1            == cur + 1
    IN  IF match(toks, c1, {"LPAREN"})
        THEN parse_expression(toks, Append(stack, ExecutionFrame(execute_token.line)), c1)
        ELSE [stack |-> Deliver(stack, MeTTaNode("execution", <<"!">>, execute_token.line, 0)),
              cur   |-> c1]

\* Faulty variant: the cursor of the previous parse is kept.
KeepCursor(cur) == cur

\* parse: self.current = 0
ResetCursor(cur) == 0

PTop == pstack[Len(pstack)]

\* History.  No parse has run: nothing returned, nothing skipped.
NoHistory == [forms |-> <<>>, tops |-> <<>>, skipped |-> <<>>]

\* History.  A form node was returned: the number of its "(" token and of
\* the ")" token consumed for it (0 when none was).
FormReturned(h, node, open, close) ==
    [h EXCEPT !.forms = Append(@, [node |-> node, open |-> open, close |-> close])]

\* History.  _parse_expression is entered at the token after index cur: if
\* it returns an empty form at once, that form is noted.
ExpressionEntered(h, toks, cur) ==
    LET c1 == cur + 1
    IN  IF is_at_end(toks, c1) \/ match(toks, c1, {"RPAREN"})
        THEN FormReturned(h, MeTTaNode("empty_expression", <<>>, peek(toks, cur).line, 0), c1,
                          IF match(toks, c1, {"RPAREN"}) THEN c1 + 1 ELSE 0)
        ELSE h

\* History.  _parse_top_level took the token after index cur as the start of a node.
TopTaken(h, cur) == [h EXCEPT !.tops = Append(@, cur + 1)]

(***************************************************************************)
(* The depth of the recursive descent.  Every method call and every node   *)
(* construction takes one Python frame; the frame of the caller of parse   *)
(* is counted as depth 1, so parse itself runs at depth 2.  The deepest    *)
(* frame of a step calls a built-in (len, finditer, the class of a token   *)
(* or of a node), and the interpreter counts that call as one level more.  *)
(***************************************************************************)
\* sys.getrecursionlimit() of the interpreter
RecursionLimit == 1000

\* Depth of the frame that runs the loop of frame i of the stack: parse for
\* the program; _parse_top_level and _parse_execution below an execution;
\* _parse_function_signature one call below its definition; a call or a
\* definition one _parse_expression below an execution and, anywhere else,
\* a _parse_top_level or _parse_any_expression further.
RECURSIVE LoopDepth(_, _)
LoopDepth(stack, i) ==
    IF i = 1 THEN 2
    ELSE LoopDepth(stack, i - 1) +
             (CASE stack[i].kind = "execution" -> 2
                [] stack[i].kind = "signature" -> 1
                [] OTHER -> IF stack[i - 1].kind = "execution" THEN 2 ELSE 3)

\* The deepest frame of _parse_expression running at depth e with cur at its
\* "(", up to the loop of the form it opens: _match -> _peek -> _is_at_end
\* from itself, from _parse_function_definition or, when a token follows the
\* "(" of a signature, from _parse_function_signature.
ExpressionDepth(toks, cur, e) ==
    LET c1 == cur + 1
    IN  IF is_at_end(toks, c1) \/ match(toks, c1, {"RPAREN"}) THEN e + 3
        ELSE IF peek(toks, c1).type = "EQUALS"
             THEN IF match(toks, c1 + 1, {"LPAREN"}) /\ ~is_at_end(toks, c1 + 2)
                  THEN e + 5
                  ELSE e + 4
             ELSE e + 3

\* The deepest frame of parse before its loop: tokenize, and MeTTaToken
\* when there is a token.
StartDepth(text) == IF tokenize(text) = <<>> THEN 3 ELSE 4

\* The deepest frame of the next step of the parse.
StepDepth ==
    LET b == LoopDepth(pstack, Len(pstack))
    IN  IF PTop.kind = "program"
        THEN IF is_at_end(tokens, current) THEN b + 1
             ELSE CASE peek(tokens, current).type = "COMMENT" -> b + 4
                    [] peek(tokens, current).type = "EXECUTE" ->
                           IF match(tokens, current + 1, {"LPAREN"})
                           THEN ExpressionDepth(tokens, current + 1, b + 3)
                           ELSE b + 5
                    [] peek(tokens, current).type = "LPAREN" -> ExpressionDepth(tokens, current, b + 2)
                    [] OTHER -> b + 3
        ELSE IF is_at_end(tokens, current)
             THEN IF PTop.kind = "signature" THEN b + 3 ELSE b + 2
             ELSE IF match(tokens, current, {"RPAREN"}) THEN b + 3
             ELSE IF peek(tokens, current).type = "LPAREN"
                  THEN ExpressionDepth(tokens, current, b + 2)
                  ELSE b + 4

\* The levels a call chain takes whose deepest Python frame is at depth d:
\* the built-in that frame calls is counted against the limit as well.
Levels(d) == d + 1

\* The next step stays within the recursion limit.
HasRoom == Levels(StepDepth) <= room

\* The cursor after the next step of the parse.
StepCursor ==
    IF is_at_end(tokens, current) THEN current
    ELSE IF PTop.kind = "program"
         THEN CASE peek(tokens, current).type = "EXECUTE" -> parse_execution(tokens, pstack, current).cur
                [] peek(tokens, current).type = "LPAREN" -> parse_expression(tokens, pstack, current).cur
                [] OTHER -> current + 1
         ELSE IF match(tokens, current, {"RPAREN"}) THEN current + 1
              ELSE parse_any_expression(tokens, pstack, current).cur

InForm == ppc = "parsing" /\ PTop.kind \in {"call", "definition", "signature"}

AtTopLevel == ppc = "parsing" /\ PTop.kind = "program" /\ ~is_at_end(tokens, current)

\* parse, up to its loop: tokenize, reset the cursor, create the root.
ParseStart ==
    /\ ppc \in {"idle", "extracted"}
    /\ plan # <<>>
    /\ Levels(StartDepth(Head(plan))) <= room
    /\ source' = Head(plan)
    /\ plan' = Tail(plan)
    /\ tokens' = tokenize(Head(plan))
    /\ current' = ResetCursor(current)
    /\ pstack' = <<Frame("program", MeTTaNode("program", <<>>, 1, 0), 0)>>
    /\ ast' = Nothing
    /\ ppc' = "parsing"
    /\ phist' = NoHistory
    /\ UNCHANGED <<records, room>>
    /\ UNCHANGED outsideParse

\* _parse_top_level on a COMMENT token
TopComment ==
    /\ AtTopLevel
    /\ HasRoom
    /\ peek(tokens, current).type = "COMMENT"
    /\ pstack' = Deliver(pstack, parse_comment(peek(tokens, current)))
    /\ current' = current + 1
    /\ phist' = TopTaken(phist, current)
    /\ UNCHANGED <<room, plan, source, tokens, ppc, ast, records>>
    /\ UNCHANGED outsideParse

\* _parse_top_level on an EXECUTE token
TopExecution ==
    /\ AtTopLevel
    /\ HasRoom
    /\ peek(tokens, current).type = "EXECUTE"
    /\ LET r == parse_execution(tokens, pstack, current)
       IN  pstack' = r.stack /\ current' = r.cur
    /\ phist' = IF match(tokens, current + 1, {"LPAREN"})
                THEN ExpressionEntered(TopTaken(phist, current), tokens, current + 1)
                ELSE TopTaken(phist, current)
    /\ UNCHANGED <<room, plan, source, tokens, ppc, ast, records>>
    /\ UNCHANGED outsideParse

\* _parse_top_level on an LPAREN token
TopExpression ==
    /\ AtTopLevel
    /\ HasRoom
    /\ peek(tokens, current).type = "LPAREN"
    /\ LET r == parse_expression(tokens, pstack, current)
       IN  pstack' = r.stack /\ current' = r.cur
    /\ phist' = ExpressionEntered(TopTaken(phist, current), tokens, current)
    /\ UNCHANGED <<room, plan, source, tokens, ppc, ast, records>>
    /\ UNCHANGED outsideParse

\* _parse_top_level on any other token: it is skipped.
TopSkip ==
    /\ AtTopLevel
    /\ HasRoom
    /\ peek(tokens, current).type \notin {"COMMENT", "EXECUTE", "LPAREN"}
    /\ current' = current + 1
    /\ phist' = [phist EXCEPT !.skipped = Append(@, current + 1)]
    /\ UNCHANGED <<room, plan, source, tokens, pstack, ppc, ast, records>>
    /\ UNCHANGED outsideParse

\* One iteration of the loop of a call, a definition or a signature.
Element ==
    /\ InForm
    /\ HasRoom
    /\ ~is_at_end(tokens, current)
    /\ ~match(tokens, current, {"RPAREN"})
    /\ LET r == parse_any_expression(tokens, pstack, current)
       IN  pstack' = r.stack /\ current' = r.cur
    /\ phist' = IF peek(tokens, current).type = "LPAREN"
                THEN ExpressionEntered(phist, tokens, current)
                ELSE phist
    /\ UNCHANGED <<room, plan, source, tokens, ppc, ast, records>>
    /\ UNCHANGED outsideParse

\* _parse_expression consumes the ")" of a call or a definition, sets the
\* node's end and returns it.
CloseExpression ==
    /\ InForm
    /\ HasRoom
    /\ PTop.kind \in {"call", "definition"}
    /\ match(tokens, current, {"RPAREN"})
    /\ LET end_token == peek(tokens, current)
           result    == [PTop.node EXCEPT !.end_line = end_token.line,
                                          !.end_point = <<end_token.line - 1, 0>>]
       IN  /\ pstack' = Deliver(Pop(pstack), result)
           /\ phist' = FormReturned(phist, result, PTop.open, current + 1)
    /\ current' = current + 1
    /\ UNCHANGED <<room, plan, source, tokens, ppc, ast, records>>
    /\ UNCHANGED outsideParse

\* _parse_function_signature consumes its ")", sets end_line (end_point is
\* left as it was) and returns the signature.
CloseSignature ==
    /\ InForm
    /\ HasRoom
    /\ PTop.kind = "signature"
    /\ match(tokens, current, {"RPAREN"})
    /\ LET end_token == peek(tokens, current)
           sig_node  == [PTop.node EXCEPT !.end_line = end_token.line]
       IN  /\ pstack' = Deliver(Pop(pstack), sig_node)
           /\ phist' = FormReturned(phist, sig_node, PTop.open, current + 1)
    /\ current' = current + 1
    /\ UNCHANGED <<room, plan, source, tokens, ppc, ast, records>>
    /\ UNCHANGED outsideParse

\* The tokens ran out inside a form: its loop ends, no ")" is matched and
\* the node is returned as it is.
Unterminated ==
    /\ InForm
    /\ HasRoom
    /\ is_at_end(tokens, current)
    /\ pstack' = Deliver(Pop(pstack), PTop.node)
    /\ phist' = FormReturned(phist, PTop.node, PTop.open, 0)
    /\ UNCHANGED <<room, plan, source, tokens, current, ppc, ast, records>>
    /\ UNCHANGED outsideParse

\* parse returns MeTTaTree(root).
ParseReturn ==
    /\ ppc = "parsing"
    /\ PTop.kind = "program"
    /\ is_at_end(tokens, current)
    /\ HasRoom
    /\ ast' = Just(PTop.node)
    /\ pstack' = <<>>
    /\ ppc' = "parsed"
    /\ UNCHANGED <<room, plan, source, tokens, current, records, phist>>
    /\ UNCHANGED outsideParse

\* parse, or tokenize under it, is called past the recursion limit:
\* RecursionError leaves parse before self.tokens is assigned.
ParseStartOverflow ==
    /\ ppc \in {"idle", "extracted"}
    /\ plan # <<>>
    /\ Levels(StartDepth(Head(plan))) > room
    /\ source' = Head(plan)
    /\ plan' = Tail(plan)
    /\ ast' = Nothing
    /\ ppc' = "raised"
    /\ UNCHANGED <<tokens, current, pstack, records, phist, room>>
    /\ UNCHANGED outsideParse

\* A call of the next step passes the recursion limit: RecursionError
\* leaves parse, no tree is returned, and the cursor stays where the step
\* had brought it.
ParseOverflow ==
    /\ ppc = "parsing"
    /\ ~HasRoom
    /\ current' \in current..StepCursor
    /\ pstack' = <<>>
    /\ ppc' = "raised"
    /\ UNCHANGED <<room, plan, source, tokens, ast, records, phist>>
    /\ UNCHANGED outsideParse

(***************************************************************************)
(* traversal_layer.py: extract_metta_definitions                           *)
(***************************************************************************)
\* str(n) for a natural number
RECURSIVE NatToStr(_)
NatToStr(n) ==
    IF n < 10 THEN <<Digits[n + 1]>> ELSE NatToStr(n \div 10) \o <<Digits[(n % 10) + 1]>>

\* collect_variables_and_atomespaces: the values of the nodes of one type
RECURSIVE CollectValues(_, _)
CollectValues(node, node_type) ==
    (IF node.type = node_type THEN {node.value} ELSE {})
        \cup UNION {CollectValues(node.children[i], node_type) : i \in 1..Len(node.children)}

\* Faulty variant: the operator is counted among the arguments.
get_expression_signature_all(node) ==
    IF node.children = <<>>
    THEN IF node.value = <<>> THEN <<"e", "m", "p", "t", "y">> ELSE node.value
    ELSE LET operator  == node.children[1].value
             arg_count == Len(node.children)
         IN  IF arg_count > 0
             THEN operator \o <<"(">> \o NatToStr(arg_count) \o <<" ", "a", "r", "g", "s", ")">>
             ELSE operator

\* get_expression_signature
get_expression_signature(node) ==
    IF node.children = <<>>
    THEN IF node.value = <<>> THEN <<"e", "m", "p", "t", "y">> ELSE node.value
    ELSE LET operator  == node.children[1].value
             arg_count == Len(node.children) - 1
         IN  IF arg_count > 0
             THEN operator \o <<"(">> \o NatToStr(arg_count) \o <<" ", "a", "r", "g", "s", ")">>
             ELSE operator

IsVariableNode(node) == node.type = "variable"

RECURSIVE NodeValues(_)
NodeValues(nodes) ==
    IF nodes = <<>> THEN <<>> ELSE <<Head(nodes).value>> \o NodeValues(Tail(nodes))

\* Faulty variant: a definition without a signature is recorded without a name.
extract_function_info_unsigned(node) ==
    LET sigs == {i \in 1..Len(node.children) : node.children[i].type = "function_signature"}
    IN  IF sigs = {}
        THEN Just([name |-> <<>>, Start_line |-> node.line, end_line |-> node.end_line,
                   parameters_Name |-> <<>>, param_count |-> 0])
        ELSE LET signature_node == node.children[CHOOSE i \in sigs : \A j \in sigs : i <= j]
                 params         == NodeValues(SelectSeq(signature_node.children, IsVariableNode))
             IN  Just([name |-> signature_node.value, Start_line |-> node.line,
                       end_line |-> node.end_line, parameters_Name |-> params,
                       param_count |-> Len(params)])

\* extract_function_info: Nothing for None
extract_function_info(node) ==
    LET sigs == {i \in 1..Len(node.children) : node.children[i].type = "function_signature"}
    IN  IF sigs = {} THEN Nothing
        ELSE LET signature_node == node.children[CHOOSE i \in sigs : \A j \in sigs : i <= j]
                 params         == NodeValues(SelectSeq(signature_node.children, IsVariableNode))
             IN  Just([name |-> signature_node.value, Start_line |-> node.line,
                       end_line |-> node.end_line, parameters_Name |-> params,
                       param_count |-> Len(params)])

NoConstructs == [functions |-> <<>>, expressions |-> <<>>, executions |-> <<>>, facts |-> <<>>]

\* Faulty variant: every expression with three children is a fact.
OwnConstructsAnyThree(node) ==
    CASE node.type = "function_definition" ->
            [NoConstructs EXCEPT !.functions = extract_function_info(node)]
      [] node.type = "execution" ->
            IF node.children # <<>>
            THEN [NoConstructs EXCEPT !.executions =
                     <<[line |-> node.line,
                        expression |-> get_expression_signature(node.children[1])]>>]
            ELSE NoConstructs
      [] node.type = "expression" ->
            LET signature == get_expression_signature(node)
            IN  IF Len(node.children) = 3
                THEN [NoConstructs EXCEPT !.facts =
                         <<[line |-> node.line, pattern |-> signature,
                            subject |-> node.children[1].value]>>]
                ELSE [NoConstructs EXCEPT !.expressions =
                         <<[line |-> node.line, signature |-> signature]>>]
      [] OTHER -> NoConstructs

\* What walk_metta_ast appends for the node itself.
OwnConstructs(node) ==
    CASE node.type = "function_definition" ->
            [NoConstructs EXCEPT !.functions = extract_function_info(node)]
      [] node.type = "execution" ->
            IF node.children # <<>>
            THEN [NoConstructs EXCEPT !.executions =
                     <<[line |-> node.line,
                        expression |-> get_expression_signature(node.children[1])]>>]
            ELSE NoConstructs
      [] node.type = "expression" ->
            LET signature == get_expression_signature(node)
            IN  IF Len(node.children) = 3 /\ node.children[1].type = "atom"
                THEN [NoConstructs EXCEPT !.facts =
                         <<[line |-> node.line, pattern |-> signature,
                            subject |-> node.children[1].value]>>]
                ELSE [NoConstructs EXCEPT !.expressions =
                         <<[line |-> node.line, signature |-> signature]>>]
      [] OTHER -> NoConstructs

JoinConstructs(a, b) ==
    [functions   |-> a.functions \o b.functions,
     expressions |-> a.expressions \o b.expressions,
     executions  |-> a.executions \o b.executions,
     facts       |-> a.facts \o b.facts]

\* walk_metta_ast: the node first, then its children in order; the four
\* lists it appends to are returned together.
RECURSIVE walk_metta_ast(_)
RECURSIVE WalkChildren(_, _)
\* Faulty variant: the expression a "!" executes is not classified itself.
walk_metta_ast_executed_once(node) ==
    IF node.type = "execution" /\ node.children # <<>> /\ node.children[1].type = "expression"
    THEN JoinConstructs(OwnConstructs(node), WalkChildren(node.children[1].children, 1))
    ELSE JoinConstructs(OwnConstructs(node), WalkChildren(node.children, 1))

walk_metta_ast(node) == JoinConstructs(OwnConstructs(node), WalkChildren(node.children, 1))
WalkChildren(children, i) ==
    IF i > Len(children) THEN NoConstructs
    ELSE JoinConstructs(walk_metta_ast(children[i]), WalkChildren(children, i + 1))

\* The number of nodes of one type in a tree.
RECURSIVE CountNodes(_, _)
RECURSIVE CountNodesAll(_, _, _)
CountNodes(node, node_type) ==
    (IF node.type = node_type THEN 1 ELSE 0) + CountNodesAll(node.children, node_type, 1)
CountNodesAll(children, node_type, i) ==
    IF i > Len(children) THEN 0
    ELSE CountNodes(children[i], node_type) + CountNodesAll(children, node_type, i + 1)

\* Faulty variant: variable_count counts the variable nodes, not the names.
extract_metta_definitions_occurrences(root_node) ==
    LET all_variables   == CollectValues(root_node, "variable")
        all_atomespaces == CollectValues(root_node, "atomespace")
        w               == walk_metta_ast(root_node)
    IN  [functions   |-> w.functions,
         executions  |-> w.executions,
         facts       |-> w.facts,
         variables   |-> Sorted(all_variables),
         atomespaces |-> Sorted(all_atomespaces),
         summary     |-> [function_count   |-> Len(w.functions),
                          expression_count |-> Len(w.expressions),
                          execution_count  |-> Len(w.executions),
                          fact_count       |-> Len(w.facts),
                          variable_count   |-> CountNodes(root_node, "variable"),
                          atomespace_count |-> Cardinality(all_atomespaces)]]

\* extract_metta_definitions: the returned record
extract_metta_definitions(root_node) ==
    LET all_variables   == CollectValues(root_node, "variable")
        all_atomespaces == CollectValues(root_node, "atomespace")
        w               == walk_metta_ast(root_node)
    IN  [functions   |-> w.functions,
         executions  |-> w.executions,
         facts       |-> w.facts,
         variables   |-> Sorted(all_variables),
         atomespaces |-> Sorted(all_atomespaces),
         summary     |-> [function_count   |-> Len(w.functions),
                          expression_count |-> Len(w.expressions),
                          execution_count  |-> Len(w.executions),
                          fact_count       |-> Len(w.facts),
                          variable_count   |-> Cardinality(all_variables),
                          atomespace_count |-> Cardinality(all_atomespaces)]]

\* extract_metta_definitions on the tree parse returned.  Called from the
\* frame that called parse, its walks take one frame for every level of the
\* tree where the parser took two or three: the room in which parse
\* returned is enough for it.
Extract ==
    /\ ppc = "parsed"
    /\ records' = Append(records, [source |-> source, defs |-> extract_metta_definitions(ast[1])])
    /\ ppc' = "extracted"
    /\ UNCHANGED <<room, plan, source, tokens, current, pstack, ast, phist>>
    /\ UNCHANGED outsideParse

\* No parser has been created.
ParseIdle ==
    /\ plan = <<>>
    /\ source = <<>>
    /\ tokens = <<>>
    /\ current = 0
    /\ pstack = <<>>
    /\ ppc = "idle"
    /\ ast = Nothing
    /\ records = <<>>
    /\ phist = NoHistory
    /\ room = RecursionLimit

(***************************************************************************)
(* traversal_layer.py: extract_definitions for the tree-sitter languages   *)
(***************************************************************************)
\* A tree-sitter node: type, start_point[0], end_point[0], the slice of
\* code_bytes it covers (kept for the identifiers only; no other slice is
\* read), its children, and the index of the child in the field "name"
\* (0 when the field is empty).
TsNode(type, start_row, end_row, text, children, name) ==
    [type |-> type, start_row |-> start_row, end_row |-> end_row,
     text |-> text, children |-> children, name |-> name]

\* node.child_by_field_name("name")
child_by_field_name(node) ==
    IF node.name = 0 THEN Nothing ELSE Just(node.children[node.name])

\* node_text: code_bytes[node.start_byte:node.end_byte].decode(...)
node_text(node) == node.text

RECURSIVE walk_var(_, _)
RECURSIVE WalkVarChildren(_, _, _)

\* collect_variables.walk_var: the names found in n and below, in pre-order.
walk_var(lang, n) ==
    LET name_node == child_by_field_name(n)
        own == IF lang = "python" /\ n.type = "assignment"
               THEN IF Len(n.children) >= 1 THEN <<node_text(n.children[1])>> ELSE <<>>
               ELSE IF lang \in {"javascript", "typescript"} /\ n.type = "variable_declarator"
               THEN IF name_node # Nothing THEN <<node_text(name_node[1])>> ELSE <<>>
               ELSE IF lang = "java" /\ n.type = "variable_declarator"
               THEN IF name_node # Nothing THEN <<node_text(name_node[1])>> ELSE <<>>
               ELSE <<>>
    IN  own \o WalkVarChildren(lang, n.children, 1)

WalkVarChildren(lang, children, i) ==
    IF i > Len(children) THEN <<>>
    ELSE walk_var(lang, children[i]) \o WalkVarChildren(lang, children, i + 1)

collect_variables(lang, func_node) == walk_var(lang, func_node)

\* The node types walk takes for a class and for a function, per language.
IsClassType(lang, type) ==
    \/ lang = "python" /\ type = "class_definition"
    \/ lang \in {"javascript", "typescript"} /\ type \in {"class_declaration", "class_definition"}
    \/ lang = "java" /\ type = "class_declaration"

IsFunctionType(lang, type) ==
    \/ lang = "python" /\ type = "function_definition"
    \/ lang \in {"javascript", "typescript"} /\ type \in {"function_declaration", "method_definition"}
    \/ lang = "java" /\ type \in {"method_declaration", "constructor_declaration"}

\* The dict walk appends to `classes` for a named class node.
ClassRecord(node, name_node) ==
    [type |-> "class", name |-> node_text(name_node), line |-> node.start_row + 1,
     functions |-> <<>>]

\* The dict walk builds for a named function node.
FunctionRecord(lang, node, name_node) ==
    [name |-> node_text(name_node), line |-> node.start_row + 1,
     variables |-> collect_variables(lang, node),
     num_lines |-> node.end_row - node.start_row + 1]

\* The levels of the call stack that node_text takes when called from a
\* frame at depth d: its own frame and the call of bytes.decode.
NodeTextLevels(d) == d + 2

\* The levels that child_by_field_name takes when called from a frame at
\* depth d.
FieldLevels(d) == d + 1

\* The levels a frame at depth d takes that tests `lang_name in [...]`
\* for a language that is not the first of the list, or `node.type in
\* (...)`: the comparison with an element that is not the same object is
\* counted against the limit.  walk makes such a test for every node of
\* every language, walk_var for python and java.
TestLevels(d) == d + 1

Max(a, b) == IF a >= b THEN a ELSE b

\* CPython 3.11 quickens the code of a function after this many calls and
\* loop back-edges of it; from then on a comparison `==` or `>=` of two
\* strings or two small integers is made in place and no longer counted
\* against the recursion limit.
QuickenAfter == 8

\* The warm-up events of walk_var's code after one more call or back-edge.
Warmed(k) == IF k < QuickenAfter THEN k + 1 ELSE k

\* The levels a frame at depth d takes whose deepest operation is a
\* comparison `==` or `>=`, after k warm-up events of its code.
ComparisonLevels(d, k) == IF k = QuickenAfter THEN d ELSE d + 1

RECURSIVE WalkVarLevels(_, _, _, _, _)
RECURSIVE WalkVarChildrenLevels(_, _, _, _, _, _)

\* The call walk_var(n) with its frame at depth d, after k warm-up events
\* of walk_var's code, in the room r: the levels it takes and the warm-up
\* events after it (up to the RecursionError if it takes more than r).
\* Its own frame is one event.  An assignment of python with a child and
\* a named declaration of javascript or java call node_text, a declaration
\* without name child_by_field_name; for an assignment without children
\* the deepest operation is the comparison of child_count, for any other
\* node of javascript (whose name is the first of the list) the comparison
\* of the language and of the node type; for python and java the test
\* against the list.  Then walk_var on every child one frame further, the
\* return to the loop after each child being one event.
WalkVarLevels(lang, n, d, k, r) ==
    IF d > r THEN [levels |-> d, warmup |-> k]
    ELSE LET k1  == Warmed(k)
             own == IF lang = "python"
                    THEN IF n.type = "assignment"
                         THEN IF Len(n.children) >= 1 THEN NodeTextLevels(d)
                              ELSE ComparisonLevels(d, k1)
                         ELSE TestLevels(d)
                    ELSE IF n.type = "variable_declarator"
                    THEN IF child_by_field_name(n) # Nothing THEN NodeTextLevels(d)
                         ELSE FieldLevels(d)
                    ELSE IF lang = "javascript" THEN ComparisonLevels(d, k1)
                    ELSE TestLevels(d)
         IN  IF own > r THEN [levels |-> own, warmup |-> k1]
             ELSE LET rest == WalkVarChildrenLevels(lang, n.children, 1, d + 1, k1, r)
                  IN  [levels |-> Max(own, rest.levels), warmup |-> rest.warmup]

WalkVarChildrenLevels(lang, children, i, d, k, r) ==
    IF i > Len(children) THEN [levels |-> 0, warmup |-> k]
    ELSE LET c == WalkVarLevels(lang, children[i], d, k, r)
         IN  IF c.levels > r THEN c
             ELSE LET rest == WalkVarChildrenLevels(lang, children, i + 1, d, Warmed(c.warmup), r)
                  IN  [levels |-> Max(c.levels, rest.levels), warmup |-> rest.warmup]

\* The call walk(node) with its frame at depth d, its calls of walk on the
\* children left out, after k warm-up events of walk_var's code, in the
\* room r: the test of the language in one of its two chains of branches,
\* child_by_field_name for a class or a function, node_text for its name,
\* and for a function of python or javascript collect_variables, which
\* calls walk_var.  In java the name `name_name` is read before node_text
\* or collect_variables is called.
WalkLevels(lang, node, d, k, r) ==
    IF IsClassType(lang, node.type) \/ IsFunctionType(lang, node.type)
    THEN IF child_by_field_name(node) = Nothing THEN [levels |-> FieldLevels(d), warmup |-> k]
         ELSE IF IsFunctionType(lang, node.type)
              THEN IF lang = "java" THEN [levels |-> FieldLevels(d), warmup |-> k]
                   ELSE IF NodeTextLevels(d) > r THEN [levels |-> NodeTextLevels(d), warmup |-> k]
                   ELSE LET v == WalkVarLevels(lang, node, d + 2, k, r)
                        IN  [levels |-> Max(NodeTextLevels(d), v.levels), warmup |-> v.warmup]
              ELSE [levels |-> NodeTextLevels(d), warmup |-> k]
    ELSE [levels |-> TestLevels(d), warmup |-> k]

\* The call walk(node) that is next.
WalkCall == WalkLevels(lang_name, Head(xstack).node, Head(xstack).depth, xwarmup, xroom)

\* One call walk(node, current_class).  current_class is a reference to a
\* dict of `classes`: its index there, 0 for None.  In the java branch the
\* dict literal reads the undefined name `name_name`: NameError leaves walk,
\* every pending call, and extract_definitions.
ExtractWalk ==
    /\ xpc = "walking"
    /\ xstack # <<>>
    /\ WalkCall.levels <= xroom
    /\ xwarmup' = WalkCall.warmup
    /\ LET node      == Head(xstack).node
           name_node == child_by_field_name(node)
           isClass   == IsClassType(lang_name, node.type) /\ name_node # Nothing
           classes1  == IF isClass THEN Append(xclasses, ClassRecord(node, name_node[1]))
                        ELSE xclasses
           current_class == IF isClass THEN Len(classes1) ELSE Head(xstack).current_class
           isFunc    == IsFunctionType(lang_name, node.type) /\ name_node # Nothing
       IN  IF isFunc /\ lang_name = "java"
           THEN /\ xraised' = "NameError: name 'name_name' is not defined"
                /\ xpc' = "raised"
                /\ xstack' = <<>>
                /\ xclasses' = classes1
                /\ UNCHANGED functions_outside
           ELSE /\ xclasses' = IF isFunc /\ current_class # 0
                              THEN [classes1 EXCEPT ![current_class].functions =
                                        Append(@, FunctionRecord(lang_name, node, name_node[1]))]
                              ELSE classes1
                /\ functions_outside' = IF isFunc /\ current_class = 0
                                        THEN Append(functions_outside,
                                                    FunctionRecord(lang_name, node, name_node[1]))
                                        ELSE functions_outside
                /\ xstack' = [i \in 1..Len(node.children) |->
                                 [node |-> node.children[i], current_class |-> current_class,
                                  depth |-> Head(xstack).depth + 1]]
                             \o Tail(xstack)
                /\ UNCHANGED <<xpc, xraised>>
    /\ UNCHANGED <<lang_name, xroot, xroom>>
    /\ UNCHANGED outsideExtract

\* The call walk(node) or a call it makes passes the recursion limit:
\* RecursionError leaves walk, every pending call, and extract_definitions.
ExtractOverflow ==
    /\ xpc = "walking"
    /\ xstack # <<>>
    /\ WalkCall.levels > xroom
    /\ xwarmup' = WalkCall.warmup
    /\ xraised' = "RecursionError: maximum recursion depth exceeded"
    /\ xpc' = "raised"
    /\ xstack' = <<>>
    /\ UNCHANGED <<lang_name, xroot, xclasses, functions_outside, xroom>>
    /\ UNCHANGED outsideExtract

\* walk(root_node) has returned: return {"classes": ..., "functions": ...}
ExtractReturn ==
    /\ xpc = "walking"
    /\ xstack = <<>>
    /\ xpc' = "returned"
    /\ UNCHANGED <<lang_name, xroot, xstack, xclasses, functions_outside, xraised, xroom, xwarmup>>
    /\ UNCHANGED outsideExtract

\* What extract_definitions returned.
ExtractResult == [classes |-> xclasses, functions |-> functions_outside]

\* extract_definitions has not been called.
ExtractIdle ==
    /\ lang_name = ""
    /\ xroot = Nothing
    /\ xstack = <<>>
    /\ xclasses = <<>>
    /\ functions_outside = <<>>
    /\ xpc = "idle"
    /\ xraised = ""
    /\ xroom = RecursionLimit
    /\ xwarmup = 0

(***************************************************************************)
(* run_docs.py: try_variants and main                                      *)
(*                                                                         *)
(* A command is written as its arguments after sys.executable.  How a      *)
(* command ends is the world's choice at the time subprocess.run is        *)
(* called: exit code 0 ("zero"), another exit code ("nonzero"),            *)
(* FileNotFoundError ("notfound") or another exception ("raised").         *)
(***************************************************************************)
build_variants ==
    << "-m galaxy_ast_docs.build_parsers",
       "galaxy_ast_docs/build_parsers.py" >>

gen_ast_variants ==
    << "-m galaxy_ast_docs.generate_ast_docs --root --output",
       "-m galaxy_ast_docs.generate_ast_docs --root --out",
       "galaxy_ast_docs/generate_ast_docs.py --root --output",
       "galaxy_ast_docs/generate_ast_docs.py --root --out" >>

gen_readme_variants ==
    << "-m llm.generate_readme --json --out",
       "-m llm.generate_readme --json --output",
       "-m llm.generate_readme --root --out",
       "-m llm.generate_readme --root --output",
       "llm/generate_readme.py --json --out",
       "llm/generate_readme.py --json --output",
       "llm/generate_readme.py --root --out",
       "llm/generate_readme.py --root --output" >>

md_variants ==
    << "-m tools.md_to_html --md --out",
       "-m tools.md_to_html --md --output",
       "tools/md_to_html.py --md --out",
       "tools/md_to_html.py --md --output" >>

\* main: the list handed to try_variants at each step
StepVariants == <<build_variants, gen_ast_variants, gen_readme_variants, md_variants>>

\* How one subprocess.run(cmd, cwd=cwd, capture_output=True, text=True) can
\* end: the command ran and returned 0, it ran and returned another code,
\* FileNotFoundError was raised, or another exception was raised (the
\* PermissionError of a program that may not be executed, the
\* UnicodeDecodeError of output that is not text in the locale's encoding).
RunOutcomes == {"zero", "nonzero", "notfound", "raised"}

\* try_variants after its n-th command ended with outcome: it returns the
\* result, goes on with the next command, or, the list exhausted, calls
\* sys.exit(1).  Only FileNotFoundError is caught: any other exception of
\* subprocess.run leaves try_variants.
try_variants(vs, n, outcome) ==
    IF outcome = "raised" THEN "raise"
    ELSE IF outcome = "zero" THEN "returned"
    ELSE IF n < Len(vs) THEN "trying"
    ELSE "exit"

\* main: the step that follows the given one (0 for none); the HTML
\* conversion is left out when tools/md_to_html.py does not exist.
NextStep(step, tool) ==
    IF step < Len(StepVariants) - 1 THEN step + 1
    ELSE IF step = Len(StepVariants) - 1 /\ tool THEN step + 1
    ELSE 0

Platforms == {"darwin", "linux", "win32", "other"}

NoBrowser == [opener |-> "", message |-> ""]

\* main: what opens the HTML page on each platform ("" where none is called)
Opener(p) ==
    CASE p = "darwin" -> "open"
      [] p = "linux"  -> "xdg-open"
      [] p = "win32"  -> "os.startfile"
      [] OTHER        -> ""

\* main with a project root that does not exist
MainRootMissing ==
    /\ dpc = "idle"
    /\ ~target_exists
    /\ dpc' = "exited"
    /\ dstatus' = Just(1)
    /\ UNCHANGED <<target_exists, tool_exists, dstep, variants, tried, last_errors, calls>>
    /\ UNCHANGED <<no_open, platform, browser>>
    /\ UNCHANGED outsideDocs

\* main up to the first subprocess.run of step 1
MainStart ==
    /\ dpc = "idle"
    /\ target_exists
    /\ dpc' = "trying"
    /\ dstep' = 1
    /\ variants' = StepVariants[1]
    /\ tried' = <<>>
    /\ last_errors' = <<>>
    /\ UNCHANGED <<target_exists, tool_exists, calls, dstatus>>
    /\ UNCHANGED <<no_open, platform, browser>>
    /\ UNCHANGED outsideDocs

\* One subprocess.run of try_variants and what follows it up to the next
\* subprocess.run or the end of the process.  An exception that leaves
\* try_variants leaves main too, which calls it outside any try: the
\* interpreter prints the traceback and the process ends with status 1.
RunVariant ==
    /\ dpc = "trying"
    /\ Len(tried) < Len(variants)
    /\ \E outcome \in RunOutcomes :
           LET cmd  == variants[Len(tried) + 1]
               n    == Len(tried) + 1
               then == try_variants(variants, n, outcome)
           IN  CASE then = "trying" ->
                        /\ tried' = Append(tried, [cmd |-> cmd, outcome |-> outcome])
                        /\ last_errors' = Append(last_errors, cmd)
                        /\ UNCHANGED <<dpc, dstep, variants, calls, dstatus>>
                 [] then = "exit" ->
                        /\ tried' = Append(tried, [cmd |-> cmd, outcome |-> outcome])
                        /\ last_errors' = IF outcome = "zero" THEN last_errors
                                          ELSE Append(last_errors, cmd)
                        /\ dpc' = "exited"
                        /\ dstatus' = Just(1)
                        /\ UNCHANGED <<dstep, variants, calls>>
                 [] then = "raise" ->
                        /\ tried' = Append(tried, [cmd |-> cmd, outcome |-> outcome])
                        /\ dpc' = "exited"
                        /\ dstatus' = Just(1)
                        /\ UNCHANGED <<dstep, variants, calls, last_errors>>
                 [] then = "returned" ->
                        /\ calls' = Append(calls, [step |-> dstep, ran |-> n])
                        /\ IF NextStep(dstep, tool_exists) = 0
                           THEN /\ tried' = Append(tried, [cmd |-> cmd, outcome |-> outcome])
                                /\ IF dstep = Len(StepVariants) /\ ~no_open
                                   THEN dpc' = "opening" /\ UNCHANGED dstatus
                                   ELSE dpc' = "done" /\ dstatus' = Just(0)
                                /\ UNCHANGED <<dstep, variants, last_errors>>
                           ELSE /\ dstep' = NextStep(dstep, tool_exists)
                                /\ variants' = StepVariants[NextStep(dstep, tool_exists)]
                                /\ tried' = <<>>
                                /\ last_errors' = <<>>
                                /\ UNCHANGED <<dpc, dstatus>>
    /\ UNCHANGED <<target_exists, tool_exists>>
    /\ UNCHANGED <<no_open, platform, browser>>
    /\ UNCHANGED outsideDocs

\* main after the HTML conversion, without --no-open: the opener of the
\* platform is called inside a try that catches every Exception, its
\* return code is not looked at, and main returns.
OpenBrowser ==
    /\ dpc = "opening"
    /\ \E outcome \in {"ran", "raised"} :
           /\ (Opener(platform) = "" => outcome = "ran")
           /\ browser' = [opener  |-> Opener(platform),
                          message |-> IF outcome = "raised" THEN "Could not open browser"
                                      ELSE "Docs ready! Opened"]
    /\ dpc' = "done"
    /\ dstatus' = Just(0)
    /\ UNCHANGED <<target_exists, tool_exists, dstep, variants, tried, last_errors, calls>>
    /\ UNCHANGED <<no_open, platform>>
    /\ UNCHANGED outsideDocs

\* run_docs.py has not been started.
DocsIdle ==
    /\ target_exists = FALSE
    /\ tool_exists = FALSE
    /\ dpc = "idle"
    /\ dstep = 0
    /\ variants = <<>>
    /\ tried = <<>>
    /\ last_errors = <<>>
    /\ calls = <<>>
    /\ dstatus = Nothing
    /\ no_open = FALSE
    /\ platform = "linux"
    /\ browser = NoBrowser

(***************************************************************************)
(* generate_ast_docs.py: filter_metta_only, print_summary                  *)
(***************************************************************************)
RECURSIVE filter_metta_only(_)
RECURSIVE FilterChildren(_, _)

\* The children filter_metta_only keeps, in order.
FilterChildren(children, i) ==
    IF i > Len(children) THEN <<>>
    ELSE filter_metta_only(children[i]) \o FilterChildren(children, i + 1)

\* Nothing (None) or Just(the node): a file is kept when its "language" key
\* is "metta"; a folder is kept, with its kept children, when any is kept;
\* a node of any other type is returned as it is.  A kept folder is the
\* folder object it was given with its children replaced
\* (tree_data["children"] = filtered_children), not a copy.
filter_metta_only(t) ==
    IF t.type = "file"
    THEN IF DictGet(t, "language", "None") = "metta" THEN Just(t) ELSE Nothing
    ELSE IF t.type = "folder"
    THEN LET kept == FilterChildren(DictGet(t, "children", <<>>), 1)
         IN  IF kept # <<>> THEN Just([t EXCEPT !.children = kept]) ELSE Nothing
    ELSE Just(t)

ZeroStats == [total_files |-> 0, metta_files |-> 0, other_files |-> 0, errors |-> 0]

RECURSIVE count_files(_, _)
RECURSIVE CountChildren(_, _, _)

CountChildren(children, i, st) ==
    IF i > Len(children) THEN st
    ELSE CountChildren(children, i + 1, count_files(children[i], st))

\* print_summary.count_files: a file is counted, the children of a folder
\* are visited, a node of any other type is passed over.
count_files(node, st) ==
    IF node.type = "file"
    THEN LET isMetta == DictGet(node, "language", "None") = "metta"
         IN  [total_files |-> st.total_files + 1,
              metta_files |-> st.metta_files + (IF isMetta THEN 1 ELSE 0),
              other_files |-> st.other_files + (IF isMetta THEN 0 ELSE 1),
              errors      |-> st.errors + (IF HasKey(node, "parse_error") THEN 1 ELSE 0)]
    ELSE IF node.type = "folder"
    THEN CountChildren(DictGet(node, "children", <<>>), 1, st)
    ELSE st

\* main: results = filter_metta_only(results) under --metta-only.
FilterMettaOnly ==
    /\ pc = "filter"
    /\ results' = filter_metta_only(results[1])
    /\ tree' = IF filter_metta_only(results[1]) # Nothing THEN filter_metta_only(results[1]) ELSE tree
    /\ pc' = "save"
    /\ UNCHANGED <<fs, lib, mettaOnly, LANGS, wstack, raised, stats, saved, failed, walked>>
    /\ UNCHANGED <<graphVars, outsideWalk>>

\* main: save_to_json(results, args.output).
SaveToJson ==
    /\ pc = "save"
    /\ saved' = Just(results)
    /\ pc' = "summary"
    /\ UNCHANGED <<fs, lib, mettaOnly, LANGS, wstack, results, raised, stats, failed, walked, tree>>
    /\ UNCHANGED <<graphVars, outsideWalk>>

\* main: print_summary(results); tree_data["type"] raises TypeError on None.
PrintSummary ==
    /\ pc = "summary"
    /\ IF results = Nothing
       THEN /\ raised' = "TypeError: 'NoneType' object is not subscriptable"
            /\ pc' = "crashed"
            /\ UNCHANGED stats
       ELSE /\ stats' = count_files(results[1], ZeroStats)
            /\ pc' = "graph"
            /\ UNCHANGED raised
    /\ UNCHANGED <<fs, lib, mettaOnly, LANGS, wstack, results, saved, failed, walked, tree>>
    /\ UNCHANGED <<graphVars, outsideWalk>>

(***************************************************************************)
(* generate_ast_docs.py: build_graph_from_tree                             *)
(***************************************************************************)
EmptyGraph == [nodes |-> <<>>, edges |-> <<>>]

\* A DiGraph.  The loops below test it on the graph they are handed: Python
\* hands a loop the graph the statements before it have built, and the test
\* has the graph evaluated at that point, not at the end of the whole run.
IsGraph(g) == DOMAIN g = {"nodes", "edges"}

\* networkx DiGraph.add_node(n, **attr): a new node, or the attributes of
\* the existing node n updated with attr.
add_node(g, n, attr) ==
    [g EXCEPT !.nodes = (n :> (IF n \in DOMAIN @ THEN attr @@ @[n] ELSE attr)) @@ @]

\* networkx DiGraph.add_edge(u, v, **attr): one edge per (u, v); a second
\* add_edge of the same pair updates the attributes of the first.
add_edge(g, u, v, rel) ==
    LET withU == IF u \in DOMAIN g.nodes THEN g ELSE add_node(g, u, <<>>)
        withV == IF v \in DOMAIN withU.nodes THEN withU ELSE add_node(withU, v, <<>>)
    IN  [withV EXCEPT !.edges = (<<u, v>> :> [relation |-> rel]) @@ @]

\* "if parent:" on the parent handed to add_node and to add_node_recursive,
\* None or the id of the calling node: None and the empty string are false.
Truthy(parent) == parent # Nothing /\ parent[1] # <<>>

\* Faulty variant: the id of a member carries the number of the build.
MemberIdCounted(owner_id, name) == owner_id \o <<":">> \o name \o <<Digits[builds + 1]>>

\* f"{owner_id}:{name}"
MemberId(owner_id, name) == owner_id \o <<":">> \o name

\* The relation of the edge from a class to one of its functions.
MethodRelation == "hasMethod"

RECURSIVE AddFunctions(_, _, _, _, _)
AddFunctions(g, owner_id, funcs, i, rel) ==
    IF IsGraph(g) /\ i > Len(funcs) THEN g
    ELSE LET func_id == MemberId(owner_id, funcs[i].name)
             g1 == add_node(g, func_id, [type |-> "function", name |-> funcs[i].name])
             g2 == add_edge(g1, owner_id, func_id, rel)
         IN  AddFunctions(g2, owner_id, funcs, i + 1, rel)

RECURSIVE AddClasses(_, _, _, _)
AddClasses(g, node_id, classes, i) ==
    IF IsGraph(g) /\ i > Len(classes) THEN g
    ELSE LET cls      == classes[i]
             class_id == MemberId(node_id, cls.name)
             g1 == add_node(g, class_id, [type |-> "class", name |-> cls.name])
             g2 == add_edge(g1, node_id, class_id, "defines")
             g3 == AddFunctions(g2, class_id, DictGet(cls, "functions", <<>>), 1, MethodRelation)
         IN  AddClasses(g3, node_id, classes, i + 1)


\* The body of add_node(node, parent) up to its recursive calls.
AddTreeNode(g, node, parent) ==
    LET node_id == DictGet(node, "path", node.name)
        g1 == add_node(g, node_id, [type |-> node.type, name |-> node.name])
        g2 == IF Truthy(parent) THEN add_edge(g1, parent[1], node_id, "contains") ELSE g1
    IN  IF node.type = "file" /\ HasKey(node, "definitions")
        THEN LET defs == node.definitions
                 g3 == AddClasses(g2, node_id, DictGet(defs, "classes", <<>>), 1)
             IN  AddFunctions(g3, node_id, DictGet(defs, "functions", <<>>), 1, "defines")
        ELSE g2

\* main: G = build_graph_from_tree(results) begins with an empty DiGraph.
GraphStart ==
    /\ pc = "graph"
    /\ G' = EmptyGraph
    /\ gstack' = <<[node |-> results[1], parent |-> Nothing]>>
    /\ pc' = "add_node"
    /\ UNCHANGED <<prevG, builds>>
    /\ UNCHANGED VG
    /\ UNCHANGED <<fs, lib, mettaOnly, LANGS, wstack, results, raised, stats, saved, failed, walked, tree>>
    /\ UNCHANGED outsideGraph

\* One call of add_node(node, parent); its recursive calls on the children
\* come next, in order, before the later siblings.
AddNode ==
    /\ pc = "add_node"
    /\ gstack # <<>>
    /\ LET call     == Head(gstack)
           node_id  == DictGet(call.node, "path", call.node.name)
           children == DictGet(call.node, "children", <<>>)
       IN  /\ G' = AddTreeNode(G, call.node, call.parent)
           /\ gstack' = [i \in 1..Len(children) |->
                            [node |-> children[i], parent |-> Just(node_id)]]
                        \o Tail(gstack)
    /\ UNCHANGED <<prevG, builds, pc>>
    /\ UNCHANGED VG
    /\ UNCHANGED <<fs, lib, mettaOnly, LANGS, wstack, results, raised, stats, saved, failed, walked, tree>>
    /\ UNCHANGED outsideGraph

\* build_graph_from_tree returns G; main writes it out.
GraphReturn ==
    /\ pc = "add_node"
    /\ gstack = <<>>
    /\ builds' = builds + 1
    /\ pc' = "done"
    /\ UNCHANGED <<G, gstack, prevG>>
    /\ UNCHANGED VG
    /\ UNCHANGED <<fs, lib, mettaOnly, LANGS, wstack, results, raised, stats, saved, failed, walked, tree>>
    /\ UNCHANGED outsideGraph

\* The builder is run once more on the same tree (json_to_graph, which ends
\* the run, has not been called).
GraphRebuild ==
    /\ pc = "done"
    /\ prevG = Nothing
    /\ VG = Nothing
    /\ prevG' = Just(G)
    /\ pc' = "graph"
    /\ UNCHANGED <<G, gstack, builds>>
    /\ UNCHANGED VG
    /\ UNCHANGED <<fs, lib, mettaOnly, LANGS, wstack, results, raised, stats, saved, failed, walked, tree>>
    /\ UNCHANGED outsideGraph

(***************************************************************************)
(* graph_layer.py: json_to_graph                                           *)
(***************************************************************************)
\* f"{owner_id}::{kind}::{name}"
ScopedId(owner_id, kind, name) == owner_id \o <<":", ":">> \o kind \o <<":", ":">> \o name

KindClass == <<"c", "l", "a", "s", "s">>
KindFunc  == <<"f", "u", "n", "c">>
KindVar   == <<"v", "a", "r">>

\* for var in func.get("variables", [])
RECURSIVE JsonVariables(_, _, _, _)
JsonVariables(g, func_id, variables, i) ==
    IF IsGraph(g) /\ i > Len(variables) THEN g
    ELSE LET var_id == ScopedId(func_id, KindVar, variables[i])
             g1 == add_node(g, var_id, [type |-> "variable", name |-> variables[i]])
             g2 == add_edge(g1, func_id, var_id, "uses")
         IN  JsonVariables(g2, func_id, variables, i + 1)

\* The two loops over functions: of a class and of the file; both label
\* the edge from the owner "defines".
RECURSIVE JsonFunctions(_, _, _, _)
JsonFunctions(g, owner_id, funcs, i) ==
    IF IsGraph(g) /\ i > Len(funcs) THEN g
    ELSE LET func_id == ScopedId(owner_id, KindFunc, funcs[i].name)
             g1 == add_node(g, func_id, [type |-> "function", name |-> funcs[i].name])
             g2 == add_edge(g1, owner_id, func_id, "defines")
             g3 == JsonVariables(g2, func_id, DictGet(funcs[i], "variables", <<>>), 1)
         IN  JsonFunctions(g3, owner_id, funcs, i + 1)

RECURSIVE JsonClasses(_, _, _, _)
JsonClasses(g, node_id, classes, i) ==
    IF IsGraph(g) /\ i > Len(classes) THEN g
    ELSE LET cls      == classes[i]
             class_id == ScopedId(node_id, KindClass, cls.name)
             g1 == add_node(g, class_id, [type |-> "class", name |-> cls.name])
             g2 == add_edge(g1, node_id, class_id, "defines")
             g3 == JsonFunctions(g2, class_id, DictGet(cls, "functions", <<>>), 1)
         IN  JsonClasses(g3, node_id, classes, i + 1)

\* add_node_recursive(node, parent)
RECURSIVE add_node_recursive(_, _, _)
RECURSIVE JsonChildren(_, _, _, _)
add_node_recursive(g, node, parent) ==
    LET node_id == DictGet(node, "path", node.name)
        g1 == add_node(g, node_id, [name |-> node.name, type |-> node.type,
                                    language |-> DictGet(node, "language", "")])
        g2 == IF Truthy(parent) THEN add_edge(g1, parent[1], node_id, "contains") ELSE g1
        g3 == IF node.type = "file" /\ HasKey(node, "definitions")
              THEN LET defs == node.definitions
                       gc   == JsonClasses(g2, node_id, DictGet(defs, "classes", <<>>), 1)
                   IN  JsonFunctions(gc, node_id, DictGet(defs, "functions", <<>>), 1)
              ELSE g2
    IN  JsonChildren(g3, DictGet(node, "children", <<>>), node_id, 1)
JsonChildren(g, children, parent_id, i) ==
    IF IsGraph(g) /\ i > Len(children) THEN g
    ELSE JsonChildren(add_node_recursive(g, children[i], Just(parent_id)), children, parent_id, i + 1)

\* json_to_graph on the tree that was written as JSON (json.load of the
\* dump of a tree of dicts, lists, strings and integers is that tree).
json_to_graph(data) == add_node_recursive(EmptyGraph, data, Nothing)

\* json_to_graph is run on the tree the base builder was run on.
JsonToGraph ==
    /\ pc = "done"
    /\ VG = Nothing
    /\ VG' = Just(json_to_graph(results[1]))
    /\ UNCHANGED <<G, gstack, prevG, builds, pc>>
    /\ UNCHANGED <<fs, lib, mettaOnly, LANGS, wstack, results, raised, stats, saved, failed, walked, tree>>
    /\ UNCHANGED outsideGraph

(***************************************************************************)
(* The run of generate_ast_docs.main on a file system                      *)
(***************************************************************************)
InitWalk ==
    /\ fs \in SmallFS
    /\ lib \in LibStates
    /\ mettaOnly \in BOOLEAN
    /\ LANGS = {}
    /\ \E root_path \in RootArgs(fs) :
           wstack = <<[kind |-> "build_tree", arg |-> root_path, path |-> <<>>,
                       name |-> <<>>, todo |-> <<fs>>, children |-> <<>>]>>
    /\ results = Nothing
    /\ raised = ""
    /\ pc = "walk"
    /\ stats = ZeroStats
    /\ saved = Nothing
    /\ failed = {}
    /\ walked = Nothing
    /\ tree = Nothing
    /\ G = EmptyGraph
    /\ gstack = <<>>
    /\ prevG = Nothing
    /\ builds = 0
    /\ VG = Nothing
    /\ LexIdle
    /\ ParseIdle
    /\ ExtractIdle
    /\ DocsIdle

NextWalk ==
    \/ WalkDir
    \/ WalkFile
    \/ WalkReturn
    \/ FilterMettaOnly
    \/ SaveToJson
    \/ PrintSummary
    \/ GraphStart
    \/ AddNode
    \/ GraphReturn

SpecWalk == InitWalk /\ [][NextWalk]_vars

(***************************************************************************)
(* Properties of the walk and of main                                      *)
(***************************************************************************)
RECURSIVE TreeNodes(_)
RECURSIVE ForestNodes(_, _)

ForestNodes(children, i) ==
    IF i > Len(children) THEN <<>>
    ELSE TreeNodes(children[i]) \o ForestNodes(children, i + 1)

\* The nodes of a tree, parents before children, siblings in order.
TreeNodes(t) == <<t>> \o ForestNodes(DictGet(t, "children", <<>>), 1)

IsFileNode(n) == n.type = "file"

FileNodes(t) == SelectSeq(TreeNodes(t), IsFileNode)

SeqToSet(s) == {s[i] : i \in 1..Len(s)}

\* The paths of the entries under e that no hidden name leads to.
RECURSIVE VisiblePathSet(_, _)
VisiblePathSet(e, path) ==
    {path} \cup
        (IF e.kind = "dir"
         THEN UNION { VisiblePathSet(c, path \o <<"/">> \o c.name) :
                        c \in {x \in e.entries : Head(x.name) # "."} }
         ELSE {})

WalkReturned == walked # Nothing

\* The path of the root of the returned tree.
RootPath == walked[1].path

WalkedFiles == FileNodes(walked[1])

FailedPaths == {f.path : f \in failed}

\* C1: an exception raised while reading, obtaining a parser for, parsing
\* or extracting one file never leaves build_tree (only a directory that
\* cannot be listed ends the walk); the failing file's node carries the
\* exception as parse_error, and the returned tree holds exactly one node
\* for every non-hidden entry under the root.
C1_FileErrorsCaught ==
    /\ (pc = "crashed" /\ ~WalkReturned) => raised = "PermissionError: listdir"
    /\ WalkReturned =>
         LET nodes == TreeNodes(walked[1])
         IN  /\ RootPath \in {abspath(a, Cwd) : a \in RootArgs(fs)}
             /\ {n.path : n \in SeqToSet(nodes)} = VisiblePathSet(fs, RootPath)
             /\ Len(nodes) = Cardinality(VisiblePathSet(fs, RootPath))
             /\ \A f \in failed :
                    \E n \in SeqToSet(nodes) :
                        /\ n.path = f.path
                        /\ HasKey(n, "parse_error")
                        /\ n.parse_error = f.exc

\* C1 witness: a returned tree in which a file that failed is followed by a
\* file that was processed and carries definitions.
C1_Witness ==
    /\ WalkReturned
    /\ \E i \in 1..Len(WalkedFiles) : \E j \in (i + 1)..Len(WalkedFiles) :
          /\ WalkedFiles[i].path \in FailedPaths
          /\ HasKey(WalkedFiles[j], "definitions")

\* C2: in the returned tree a file whose extension maps to a language has
\* exactly one of definitions and parse_error, and a file with no detected
\* language has neither.
C2_DefinitionsXorError ==
    WalkReturned =>
        \A n \in SeqToSet(WalkedFiles) :
            IF detect_language(n.name) # NoLang
            THEN HasKey(n, "definitions") # HasKey(n, "parse_error")
            ELSE ~HasKey(n, "definitions") /\ ~HasKey(n, "parse_error")

\* C2 witness: a returned tree with a file bearing definitions, a file
\* bearing parse_error and a file of no language.
C2_Witness ==
    /\ WalkReturned
    /\ \E n \in SeqToSet(WalkedFiles) : HasKey(n, "definitions")
    /\ \E n \in SeqToSet(WalkedFiles) : HasKey(n, "parse_error")
    /\ \E n \in SeqToSet(WalkedFiles) : detect_language(n.name) = NoLang

SummaryPrinted == pc \in {"graph", "add_node", "done"}

\* C4 as stated: whenever the walk returned, main completes with a tree and
\* the error count of the summary is the number of files that failed.
C4_SummaryCountsFailures ==
    WalkReturned =>
        /\ pc # "crashed"
        /\ SummaryPrinted => stats.errors = Cardinality(failed)

(***************************************************************************)
(* The graph builder run twice on one tree                                 *)
(***************************************************************************)
\* Length of the function lists of the trees the builder is run on.
MaxFuncs == 2

FuncInfos(names) == {[i \in 1..Len(ns) |-> FuncInfo(ns[i])] : ns \in SeqsUpTo(names, MaxFuncs)}

TopFuncLists == FuncInfos({<<"f">>, <<"A">>})

ClassFuncLists == FuncInfos({<<"f">>, <<"g">>})

\* A class record that has no "functions" key.
ClassWithoutFunctions(name) == [type |-> "class", name |-> name, line |-> 1]

ClassLists ==
    {<<>>, <<ClassWithoutFunctions(<<"B">>)>>}
        \cup {<<ClassInfo(<<"A">>, fl)>> : fl \in ClassFuncLists}
        \cup {<<ClassInfo(<<"A">>, fl), ClassInfo(<<"A">>, fl)>> : fl \in ClassFuncLists}
        \cup {<<ClassInfo(<<"A">>, fl), ClassInfo(<<"B">>, <<>>)>> : fl \in ClassFuncLists}

TreeFile(dir, name, extra) ==
    [name |-> name, path |-> dir \o <<"/">> \o name, type |-> "file"] @@ extra

Parsed(lang, defs) ==
    [language |-> lang, definitions |-> defs,
     parser_type |-> IF is_metta_language(lang) THEN "custom_metta" ELSE "tree_sitter"]

NameXPy    == <<"x", ".", "p", "y">>
NameXPyA   == <<"x", ".", "p", "y", ":", "A">>
NameYMetta == <<"y", ".", "m", "e", "t", "t", "a">>
PathRoot   == <<"/", "r">>
PathSub    == <<"/", "r", "/", "s", "u", "b">>

\* Each set holds the ways one child of the root can be present, as a list
\* of zero or one node; the children are listed in ascending order of name.
SubChoices ==
    { <<>>,
      <<[name |-> NameSub, path |-> PathSub, type |-> "folder", children |-> <<>>]>>,
      <<[name |-> NameSub, path |-> PathSub, type |-> "folder",
         children |-> <<TreeFile(PathSub, NameXPy, Parsed("python", PyValid))>>]>> }

XPyChoices ==
    {<<>>, <<TreeFile(PathRoot, NameXPy, [parse_error |-> "PermissionError: open"])>>}
        \cup {<<TreeFile(PathRoot, NameXPy, Parsed("python", ExtDefs(cl, fl)))>> :
                cl \in ClassLists, fl \in TopFuncLists}

XPyAChoices == {<<>>, <<TreeFile(PathRoot, NameXPyA, <<>>)>>}

YMettaChoices ==
    {<<>>}
        \cup {<<TreeFile(PathRoot, NameYMetta, Parsed("metta", MettaDefs(fl)))>> :
                fl \in {<<>>, <<MettaFunc(<<"f">>)>>, <<MettaFunc(<<"f">>), MettaFunc(<<"f">>)>>}}

\* A root whose id is the empty string (an empty path, or no path and an
\* empty name) and a root without a path, whose id is its name.
OddRoots ==
    { [name |-> NameRoot, path |-> <<>>, type |-> "folder"],
      [name |-> <<>>, type |-> "folder"],
      [name |-> NameRoot, type |-> "folder"] }

\* A folder of the tree whose id is the empty string, with a file in it.
EmptyIdFolder ==
    [name |-> NameSub, path |-> <<>>, type |-> "folder",
     children |-> <<TreeFile(PathSub, NameXPy, Parsed("python", PyValid))>>]

GraphTrees ==
    { [name |-> NameRoot, path |-> PathRoot, type |-> "folder", children |-> a \o b \o c \o d] :
        a \in SubChoices, b \in XPyChoices, c \in XPyAChoices, d \in YMettaChoices }
      \cup { root @@ [children |-> a \o b] :
                root \in OddRoots, a \in SubChoices,
                b \in {<<>>, <<TreeFile(PathRoot, NameXPy, Parsed("python", PyValid))>>} }
      \cup { [name |-> NameRoot, path |-> PathRoot, type |-> "folder",
              children |-> <<EmptyIdFolder>> \o b] : b \in XPyAChoices }

InitGraph ==
    /\ fs = DirEntry(NameRoot, TRUE, {})
    /\ lib \in {l \in LibStates : l.exists /\ Cardinality(l.loadable) = Len(PARSERS)}
    /\ mettaOnly = FALSE
    /\ LANGS = {}
    /\ wstack = <<>>
    /\ results \in {Just(t) : t \in GraphTrees}
    /\ raised = ""
    /\ pc = "graph"
    /\ stats = count_files(results[1], ZeroStats)
    /\ saved = Just(results)
    /\ failed = {}
    /\ walked = results
    /\ tree = results
    /\ G = EmptyGraph
    /\ gstack = <<>>
    /\ prevG = Nothing
    /\ builds = 0
    /\ VG = Nothing
    /\ LexIdle
    /\ ParseIdle
    /\ ExtractIdle
    /\ DocsIdle

NextGraph ==
    \/ GraphStart
    \/ AddNode
    \/ GraphReturn
    \/ GraphRebuild
    \/ JsonToGraph

SpecGraph == InitGraph /\ [][NextGraph]_vars

Built == pc = "done"

\* The classes, class functions and top-level functions of a file node.
RECURSIVE SumLens(_, _)
SumLens(classes, i) ==
    IF i > Len(classes) THEN 0
    ELSE Len(DictGet(classes[i], "functions", <<>>)) + SumLens(classes, i + 1)

Members(n) ==
    IF n.type = "file" /\ HasKey(n, "definitions")
    THEN LET cl == DictGet(n.definitions, "classes", <<>>)
         IN  Len(cl) + SumLens(cl, 1) + Len(DictGet(n.definitions, "functions", <<>>))
    ELSE 0

RECURSIVE SumMembers(_, _)
SumMembers(nodes, i) ==
    IF i > Len(nodes) THEN 0 ELSE Members(nodes[i]) + SumMembers(nodes, i + 1)

\* folders + files + classes + class functions + top-level functions
EntityCount(t) == Len(TreeNodes(t)) + SumMembers(TreeNodes(t), 1)

\* The id of a tree node: its path, or its name when it has no path.
NodeId(n) == DictGet(n, "path", n.name)

\* C8 as stated: the built graph has one node per entity of the tree, and
\* every tree node keeps its own attributes.
C8_OneNodePerEntity ==
    Built =>
        /\ Cardinality(DOMAIN G.nodes) = EntityCount(results[1])
        /\ \A n \in SeqToSet(TreeNodes(results[1])) :
              G.nodes[NodeId(n)] = [type |-> n.type, name |-> n.name]

\* The ids of the classes, class functions and top-level functions of a
\* file node, written from its id and their names alone.
DefinitionIds(n) ==
    LET cl == DictGet(n.definitions, "classes", <<>>)
        fl == DictGet(n.definitions, "functions", <<>>)
    IN  {NodeId(n) \o <<":">> \o cl[i].name : i \in 1..Len(cl)}
          \cup UNION { {NodeId(n) \o <<":">> \o cl[i].name \o <<":">> \o
                            DictGet(cl[i], "functions", <<>>)[j].name :
                          j \in 1..Len(DictGet(cl[i], "functions", <<>>))} : i \in 1..Len(cl) }
          \cup {NodeId(n) \o <<":">> \o fl[i].name : i \in 1..Len(fl)}

ParsedFiles(t) ==
    {m \in SeqToSet(TreeNodes(t)) : m.type = "file" /\ HasKey(m, "definitions")}

\* The ids a tree gives rise to: a function of its paths and names.
ExpectedIds(t) ==
    {NodeId(n) : n \in SeqToSet(TreeNodes(t))} \cup UNION {DefinitionIds(n) : n \in ParsedFiles(t)}

\* C9: the node ids of a built graph are the paths of the tree nodes (the
\* name of a node without a path) and "owner:name" for every class, class
\* function and top-level function, so that no id depends on a counter or
\* on anything but paths and member names; and a second build of the same
\* tree ends with the same node ids, the same attributes and the same edges
\* as the first.
C9_RebuildIsIdentical ==
    Built =>
        /\ DOMAIN G.nodes = ExpectedIds(results[1])
        /\ prevG # Nothing => G = prevG[1]

\* C9 witness: a second build has ended on a tree with classes, methods and
\* functions.
C9_Witness ==
    /\ Built
    /\ prevG # Nothing
    /\ \E e \in DOMAIN G.edges : G.edges[e].relation = "hasMethod"
    /\ \E e \in DOMAIN G.edges : G.edges[e].relation = "contains"

EdgeTriples(g) == {<<e[1], e[2], g.edges[e].relation>> : e \in DOMAIN g.edges}

\* One triple parent -> child for every node that is not the root.
ContainsEdges(t) ==
    UNION { {<<NodeId(n), NodeId(DictGet(n, "children", <<>>)[i]), "contains">> :
                i \in 1..Len(DictGet(n, "children", <<>>))} : n \in SeqToSet(TreeNodes(t)) }

DefinitionEdges(n) ==
    LET cl == DictGet(n.definitions, "classes", <<>>)
        fl == DictGet(n.definitions, "functions", <<>>)
    IN  {<<NodeId(n), NodeId(n) \o <<":">> \o cl[i].name, "defines">> : i \in 1..Len(cl)}
          \cup UNION { {<<NodeId(n) \o <<":">> \o cl[i].name,
                          NodeId(n) \o <<":">> \o cl[i].name \o <<":">> \o
                              DictGet(cl[i], "functions", <<>>)[j].name,
                          "hasMethod">> : j \in 1..Len(DictGet(cl[i], "functions", <<>>))} :
                       i \in 1..Len(cl) }
          \cup {<<NodeId(n), NodeId(n) \o <<":">> \o fl[i].name, "defines">> : i \in 1..Len(fl)}

ExpectedEdges(t) ==
    ContainsEdges(t) \cup UNION {DefinitionEdges(n) : n \in ParsedFiles(t)}

ParentIdsNonEmpty(t) ==
    \A n \in SeqToSet(TreeNodes(t)) : DictGet(n, "children", <<>>) # <<>> => NodeId(n) # <<>>

\* On a tree whose parents have non-empty ids, as in every tree the walker
\* returns, the edges are exactly the stated ones.
EdgesAsSpecifiedUnderNonEmptyIds ==
    (Built /\ ParentIdsNonEmpty(results[1])) => EdgeTriples(G) = ExpectedEdges(results[1])

\* The graph of json_to_graph without its variable nodes and uses edges.
WithoutVariables(g) ==
    LET keep  == {n \in DOMAIN g.nodes : ~(HasKey(g.nodes[n], "type") /\ g.nodes[n].type = "variable")}
        keepE == {e \in DOMAIN g.edges : g.edges[e].relation # "uses"}
    IN  [nodes |-> [n \in keep |-> g.nodes[n]], edges |-> [e \in keepE |-> g.edges[e]]]

\* C11 as stated: once both builders have run on a tree, the graph of
\* json_to_graph without variable nodes and uses edges has the node ids of
\* the graph of build_graph_from_tree and the same relation on every edge.
C11_VariableGraphExtendsBase ==
    (pc = "done" /\ VG # Nothing) =>
        LET base == WithoutVariables(VG[1])
        IN  /\ DOMAIN base.nodes = DOMAIN G.nodes
            /\ base.edges = G.edges


\* The walk, the graph builder: nothing is running.
WalkIdle ==
    /\ fs = DirEntry(NameRoot, TRUE, {})
    /\ lib = [exists |-> TRUE, loadable |-> {PARSERS[i] : i \in 1..Len(PARSERS)}]
    /\ mettaOnly = FALSE
    /\ LANGS = {}
    /\ wstack = <<>>
    /\ results = Nothing
    /\ raised = ""
    /\ pc = "library"
    /\ stats = ZeroStats
    /\ saved = Nothing
    /\ failed = {}
    /\ walked = Nothing
    /\ tree = Nothing

GraphIdle ==
    /\ G = EmptyGraph
    /\ gstack = <<>>
    /\ prevG = Nothing
    /\ builds = 0
    /\ VG = Nothing

(***************************************************************************)
(* The registry of language_layer.py called directly, outside a walk       *)
(***************************************************************************)
\* The names the registry is asked for: the languages of EXT_MAP and one
\* that is in no table.
RegistryNames == {"metta", "python", "javascript", "java", "typescript"}

\* get_parser(lang_name) is called; raised is the exception of the call.
GetParser ==
    /\ pc = "library"
    /\ \E lang \in RegistryNames :
           LET r == get_parser(lang, LANGS, lib)
           IN  /\ LANGS' = r.langs
               /\ raised' = r.exc
    /\ UNCHANGED <<fs, lib, mettaOnly, wstack, results, pc, stats, saved, failed, walked, tree>>
    /\ UNCHANGED <<graphVars, outsideWalk>>

\* get_language_version(lang_name) is called; raised is the exception of
\* the call.
GetLanguageVersion ==
    /\ pc = "library"
    /\ \E lang \in RegistryNames :
           LET r == get_language_version(lang, LANGS, lib)
           IN  /\ LANGS' = r.langs
               /\ raised' = r.exc
    /\ UNCHANGED <<fs, lib, mettaOnly, wstack, results, pc, stats, saved, failed, walked, tree>>
    /\ UNCHANGED <<graphVars, outsideWalk>>

InitRegistry ==
    /\ fs = DirEntry(NameRoot, TRUE, {})
    /\ lib \in LibStates
    /\ mettaOnly = FALSE
    /\ LANGS = {}
    /\ wstack = <<>>
    /\ results = Nothing
    /\ raised = ""
    /\ pc = "library"
    /\ stats = ZeroStats
    /\ saved = Nothing
    /\ failed = {}
    /\ walked = Nothing
    /\ tree = Nothing
    /\ GraphIdle
    /\ LexIdle
    /\ ParseIdle
    /\ ExtractIdle
    /\ DocsIdle

NextRegistry ==
    \/ GetParser
    \/ GetLanguageVersion

SpecRegistry == InitRegistry /\ [][NextRegistry]_vars

\* The registry holds only languages of PARSERS that the library loads.
RegistryHoldsLoadedLanguages ==
    pc = "library" => LANGS \subseteq (lib.loadable \cap {PARSERS[i] : i \in 1..Len(PARSERS)})

(***************************************************************************)
(* The lexer run on bounded texts                                          *)
(***************************************************************************)
\* Length of the texts the lexer is run on.
MaxTextLen == 3

LexAlphabet == {"a", "1", "U+0663", "-", "=", "!", ".", " ", "\n", "#", "\"", "$", ";", "("}

\* Longer texts: a string literal that holds a newline, with a token after it.
LexSamples ==
    { <<"\"", "\n", "\"", "a">>,
      <<"a", "\n", "\"", "\n", "\"", " ", "a">> }

InitLex ==
    /\ code \in SeqsUpTo(LexAlphabet, MaxTextLen) \cup LexSamples
    /\ lex = LexStart
    /\ WalkIdle
    /\ GraphIdle
    /\ ParseIdle
    /\ ExtractIdle
    /\ DocsIdle

NextLex ==
    \/ LexStep
    \/ LexReturn

SpecLex == InitLex /\ [][NextLex]_vars

IsBlank(c) == c \in {" ", "\t", "\n"}

NotBlank(c) == ~IsBlank(c)

RECURSIVE ConcatValues(_, _)
ConcatValues(toks, i) ==
    IF i > Len(toks) THEN <<>> ELSE toks[i].value \o ConcatValues(toks, i + 1)

\* C6 as stated: when tokenize returns, the token texts in order are the
\* source text without the whitespace and newlines the scan discarded: no
\* other character of the input is missing from the tokens.
C6_TokensCoverText ==
    lex.done => SelectSeq(ConcatValues(lex.tokens, 1), NotBlank) = SelectSeq(code, NotBlank)

(***************************************************************************)
(* The parser and the extractor run on bounded sources                     *)
(***************************************************************************)
\* Number of words of the sources handed to the parser.
MaxWords == 4

Words ==
    { <<"(">>, <<")">>, <<"!">>, <<"=">>, <<"a">>, <<"$", "x">>, <<"\n">>, <<";", "c">> }

\* " ".join(words)
RECURSIVE JoinWords(_)
JoinWords(ws) ==
    IF ws = <<>> THEN <<>>
    ELSE IF Len(ws) = 1 THEN ws[1]
    ELSE ws[1] \o <<" ">> \o JoinWords(Tail(ws))

WordTexts(n) == {JoinWords(ws) : ws \in SeqsUpTo(Words, n)}

\* !(f 1 2)
SampleExecution == << "!", "(", "f", " ", "1", " ", "2", ")" >>

\* (B p A) ; fact
SampleFact == << "(", "B", " ", "p", " ", "A", ")", " ", ";", " ", "f", "a", "c", "t" >>

\* (a
\*   (b
\*     c
SampleOpen == << "(", "a", "\n", " ", " ", "(", "b", "\n", " ", " ", " ", " ", "c" >>

\* (= (double $x) (* $x 2))
SampleDouble ==
    << "(", "=", " ", "(", "d", "o", "u", "b", "l", "e", " ", "$", "x", ")", " ", "(", "*", " ", "$", "x", " ", "2", ")", ")" >>

\* !(foo 1 2)
SampleFoo == << "!", "(", "f", "o", "o", " ", "1", " ", "2", ")" >>

\* (Bob parent Alex)
SampleBob ==
    << "(", "B", "o", "b", " ", "p", "a", "r", "e", "n", "t", " ", "A", "l", "e", "x", ")" >>

\* (a b)
SampleAB == << "(", "a", " ", "b", ")" >>

\* ! a
SampleBareExecution == << "!", " ", "a" >>

\* (a b) (Bob parent Alex) ($x is a)
SampleMixed ==
    << "(", "a", " ", "b", ")", " ", "(", "B", "o", "b", " ", "p", "a", "r", "e", "n",
       "t", " ", "A", "l", "e", "x", ")", " ", "(", "$", "x", " ", "i", "s", " ", "a", ")" >>

\* !(= (f $x) (g $x &s)) (a b)
SampleAll ==
    << "!", "(", "=", " ", "(", "f", " ", "$", "x", ")", " ", "(", "g", " ", "$", "x",
       " ", "&", "s", ")", ")", " ", "(", "a", " ", "b", ")" >>

\* (= (f $x) (g (h $x) b))
SampleNested ==
    << "(", "=", " ", "(", "f", " ", "$", "x", ")", " ", "(", "g", " ", "(", "h", " ",
       "$", "x", ")", " ", "b", ")", ")" >>

\* (= () a)
SampleEmptySignature == << "(", "=", " ", "(", ")", " ", "a", ")" >>

\* (a (= ()) b)
SampleEmptySignatureInside ==
    << "(", "a", " ", "(", "=", " ", "(", ")", ")", " ", "b", ")" >>

\* (a ;c
\*  b)
SampleCommentInside == << "(", "a", " ", ";", "c", "\n", " ", "b", ")" >>

\* A comment on a line that ends with a carriage return and a line feed,
\* a form feed and an atom on the next line.
SampleCarriageReturn == << ";", " ", "c", " ", "\r", "\n", "\f", "a" >>

\* A comment that ends with a no-break space and a vertical tab, and on
\* the next line a form of a number in Arabic-Indic digits and an atom
\* followed by an Arabic-Indic digit.
SampleUnicode ==
    << ";", "c", "U+00A0", "U+000B", "\n", "(", "U+0661", "U+0662", ".", "U+0663", " ", "a", "U+0664", ")" >>

Separators == { <<" ">>, <<"\n">> }

Bodies ==
    { <<"a">>,
      <<"(", "g", " ", "$", "x", " ", "&", "s", ")">>,
      <<"(", "a", " ", "b", "\n", "c", ")">>,
      <<"(", ")">>,
      <<"(", "=", " ", "a", ")">>,
      <<";", "c", "\n">> }

Closings == { <<>>, <<")">>, <<"\n", ")">> }

\* Function definitions "(= (f $x) body)" and their executions, with the
\* line breaks, the body and the closing parenthesis varied.
DefinitionTexts ==
    { pre \o <<"(", "=", " ", "(", "f">> \o s1 \o <<"$", "x", ")">> \o s2 \o body \o close :
        pre \in {<<>>, <<"!">>}, s1 \in Separators, s2 \in Separators,
        body \in Bodies, close \in Closings }

SampleTexts ==
    {SampleExecution, SampleFact, SampleOpen, SampleDouble, SampleFoo, SampleBob, SampleAB,
     SampleBareExecution, SampleMixed,
     SampleAll, SampleNested, SampleEmptySignature, SampleEmptySignatureInside,
     SampleCommentInside, SampleCarriageReturn, SampleUnicode} \cup DefinitionTexts

InitParse ==
    /\ \E t \in WordTexts(MaxWords) \cup SampleTexts : plan = <<t>>
    /\ source = <<>>
    /\ tokens = <<>>
    /\ current = 0
    /\ pstack = <<>>
    /\ ppc = "idle"
    /\ ast = Nothing
    /\ records = <<>>
    /\ phist = NoHistory
    /\ room = RecursionLimit
    /\ WalkIdle
    /\ GraphIdle
    /\ LexIdle
    /\ ExtractIdle
    /\ DocsIdle

NextParse ==
    \/ ParseStart
    \/ TopComment
    \/ TopExecution
    \/ TopExpression
    \/ TopSkip
    \/ Element
    \/ CloseExpression
    \/ CloseSignature
    \/ Unterminated
    \/ ParseReturn
    \/ Extract

SpecParse == InitParse /\ [][NextParse]_vars

\* Number of words of a source parsed with little room below the recursion limit.
MaxDeepWords == 3

\* The largest room a parse is started with: enough for every source here.
MaxRoom == 17

DeepTexts ==
    WordTexts(MaxDeepWords) \cup
        {SampleExecution, SampleOpen, SampleDouble, SampleBareExecution, SampleAll, SampleNested}

\* parse is called deep in the call stack: few frames are left below the
\* recursion limit.
InitDeep ==
    /\ \E t \in DeepTexts : plan = <<t>>
    /\ room \in 1..MaxRoom
    /\ source = <<>>
    /\ tokens = <<>>
    /\ current = 0
    /\ pstack = <<>>
    /\ ppc = "idle"
    /\ ast = Nothing
    /\ records = <<>>
    /\ phist = NoHistory
    /\ WalkIdle
    /\ GraphIdle
    /\ LexIdle
    /\ ExtractIdle
    /\ DocsIdle

NextDeep ==
    \/ NextParse
    \/ ParseStartOverflow
    \/ ParseOverflow

SpecDeep == InitDeep /\ [][NextDeep]_vars

\* Number of words of the source that is parsed twice on one parser.
MaxReparseWords == 3

\* What the parser is given between the two parses of the same source.
BetweenTexts ==
    { <<"(", "=", " ", "(", "f", " ", "$", "x", ")", " ", "a", ")">>, <<"(", " ", "a">> }

\* One parser instance parses a source, another one, and the first again.
InitReparse ==
    /\ \E a \in WordTexts(MaxReparseWords) \cup SampleTexts, b \in BetweenTexts : plan = <<a, b, a>>
    /\ source = <<>>
    /\ tokens = <<>>
    /\ current = 0
    /\ pstack = <<>>
    /\ ppc = "idle"
    /\ ast = Nothing
    /\ records = <<>>
    /\ phist = NoHistory
    /\ room = RecursionLimit
    /\ WalkIdle
    /\ GraphIdle
    /\ LexIdle
    /\ ExtractIdle
    /\ DocsIdle

SpecReparse == InitReparse /\ [][NextParse]_vars

(***************************************************************************)
(* walker.py with metta_parser.py: a directory of ten files, the DSL files *)
(* given by their text and parsed by MeTTaParser                           *)
(***************************************************************************)
\* The parentheses of a token list are balanced: every ")" closes a "(" and
\* no "(" is left open.
RECURSIVE ParenBalance(_, _, _)
ParenBalance(toks, i, depth) ==
    IF i > Len(toks) THEN depth
    ELSE IF toks[i].type = "LPAREN" THEN ParenBalance(toks, i + 1, depth + 1)
    ELSE IF toks[i].type = "RPAREN"
         THEN IF depth = 0 THEN -1 ELSE ParenBalance(toks, i + 1, depth - 1)
    ELSE ParenBalance(toks, i + 1, depth)

BalancedTokens(toks) == ParenBalance(toks, 1, 0) = 0

\* A readable file given by its decoded text.
TextEntry(name, text) ==
    [kind |-> "file", name |-> name, readable |-> TRUE,
     syntax_ok |-> BalancedTokens(tokenize(text)), text |-> text]

\* (= (f $x) a)
TextDefinition == << "(", "=", " ", "(", "f", " ", "$", "x", ")", " ", "a", ")" >>

\* ; c
\* !(f a)
\* (a b)
TextProgram ==
    << ";", " ", "c", "\n", "!", "(", "f", " ", "a", ")", "\n", "(", "a", " ", "b", ")" >>

\* Texts with unbalanced parentheses.
InvalidTexts ==
    { << ")", "(" >>,
      << "(", "a" >>,
      << "(", "=", " ", "(", "f" >>,
      << "(", "=", " ", "(", "f", " ", "$", "x", ")", " ", "(", "g", " ", "a" >>,
      << "(", "a", ")", ")" >>,
      << "a", " ", "(", "b" >>,
      << "!", "(" >> }

LangExt(lang) ==
    CASE lang = "metta"  -> ExtMetta
      [] lang = "python" -> ExtPy
      [] lang = "java"   -> ExtJava

TenName(i, lang) == <<"f", Digits[i]>> \o LangExt(lang)

\* The file with invalid syntax: a DSL file with unbalanced parentheses, a
\* DSL file nested deeper than the recursion limit lets parse descend (a
\* text of some four hundred "("), or a malformed file of another
\* language, whose tree may be too deep for the recursive walk.
BadFiles(i) ==
    {TextEntry(TenName(i, "metta"), t) : t \in InvalidTexts}
        \cup {FileEntry(TenName(i, "metta"), TRUE, FALSE, TRUE, MettaEmpty)}
        \cup {FileEntry(TenName(i, l), TRUE, FALSE, deep, ExtEmpty) :
                l \in {"python", "java"}, deep \in BOOLEAN}

\* What the nine valid files are: DSL files, of the one and the other
\* valid text in turn, or files of another language with one record of
\* definitions.
GoodKinds ==
    { [lang |-> "metta", defs |-> MettaValid],
      [lang |-> "python", defs |-> PyValid],
      [lang |-> "java", defs |-> JavaPlain],
      [lang |-> "java", defs |-> JavaMethod] }

GoodFile(i, g) ==
    IF g.lang = "metta"
    THEN TextEntry(TenName(i, "metta"), IF i % 2 = 0 THEN TextDefinition ELSE TextProgram)
    ELSE FileEntry(TenName(i, g.lang), TRUE, TRUE, FALSE, g.defs)

\* The directory of the error-isolation property: ten files f0..f9, one of
\* them with invalid syntax, nine valid, all readable.
TenFS ==
    UNION { { DirEntry(NameRoot, TRUE,
                {IF i = bad THEN b ELSE GoodFile(i, g) : i \in 1..Len(Digits)}) :
              b \in BadFiles(bad) } :
            bad \in 1..Len(Digits), g \in GoodKinds }

\* The frames the recursion limit leaves to parse_code in a run of
\* `python -m galaxy_ast_docs.generate_ast_docs` (run as a script the
\* module fails on its relative imports).  Above parse_code are runpy's
\* _run_module_as_main and _run_code, the module, main, walk_and_parse and
\* build_tree, then process_path for the root and, for every directory on
\* the way to the file, a list comprehension and process_path; the exec of
\* runpy holds one level more.  wstack holds build_tree and one frame for
\* every such directory.
MainRoom == RecursionLimit - (2 * Len(wstack) + 6)

\* process_path on a DSL file, up to the call of MeTTaParser.parse: the
\* file is read, get_parser returns None, parse_code creates a parser and
\* hands it the text (a text that is not UTF-8 is decoded without its bad
\* bytes).
ParseCode ==
    /\ pc = "walk"
    /\ wstack # <<>>
    /\ Top.todo # <<>>
    /\ Head(Top.todo).kind = "file"
    /\ HasKey(Head(Top.todo), "text")
    /\ Head(Top.todo).readable
    /\ is_metta_language(detect_language(ChildPath(Top, Head(Top.todo))))
    /\ ppc = "idle"
    /\ plan = <<>>
    /\ plan' = <<Head(Top.todo).text>>
    /\ source' = <<>>
    /\ tokens' = <<>>
    /\ current' = 0
    /\ pstack' = <<>>
    /\ ast' = Nothing
    /\ phist' = NoHistory
    /\ room' = MainRoom
    /\ UNCHANGED <<ppc, records>>
    /\ UNCHANGED outsideParse

\* process_path on a DSL file, from the return of parse_code on: what
\* parse raised is caught, the record extract_definitions returned is
\* stored in the node.
WalkParsed ==
    /\ pc = "walk"
    /\ wstack # <<>>
    /\ Top.todo # <<>>
    /\ Head(Top.todo).kind = "file"
    /\ HasKey(Head(Top.todo), "text")
    /\ ppc \in {"extracted", "raised"}
    /\ LET e == Head(Top.todo)
       IN  FileProcessed(FileEntry(e.name, e.readable, e.syntax_ok, ppc = "raised",
                                   IF ppc = "extracted" THEN records[Len(records)].defs
                                   ELSE MettaEmpty))
    /\ ppc' = "idle"
    /\ UNCHANGED <<plan, source, tokens, current, pstack, ast, records, phist, room>>
    /\ UNCHANGED <<graphVars, lexVars, extractVars, docsVars>>

InitTen ==
    /\ fs \in TenFS
    /\ lib \in IF \A e \in fs.entries : detect_language(e.name) = "metta"
               THEN {LibComplete} ELSE LibStates
    /\ mettaOnly = FALSE
    /\ LANGS = {}
    /\ \E root_path \in RootArgs(fs) :
           wstack = <<[kind |-> "build_tree", arg |-> root_path, path |-> <<>>,
                       name |-> <<>>, todo |-> <<fs>>, children |-> <<>>]>>
    /\ results = Nothing
    /\ raised = ""
    /\ pc = "walk"
    /\ stats = ZeroStats
    /\ saved = Nothing
    /\ failed = {}
    /\ walked = Nothing
    /\ tree = Nothing
    /\ GraphIdle
    /\ LexIdle
    /\ plan = <<>>
    /\ source = <<>>
    /\ tokens = <<>>
    /\ current = 0
    /\ pstack = <<>>
    /\ ppc = "idle"
    /\ ast = Nothing
    /\ records = <<>>
    /\ phist = NoHistory
    /\ room = RecursionLimit
    /\ ExtractIdle
    /\ DocsIdle

NextTen ==
    \/ WalkDir
    \/ WalkFile
    \/ ParseCode
    \/ NextParse
    \/ WalkParsed
    \/ WalkReturn

SpecTen == InitTen /\ [][NextTen]_vars

BadEntry == CHOOSE e \in fs.entries : ~e.syntax_ok

NodeAt(path) == CHOOSE n \in SeqToSet(WalkedFiles) : n.path = path

NodeOf(e) == NodeAt(join(RootPath, e.name))

NumWith(key) == Cardinality({n \in SeqToSet(WalkedFiles) : HasKey(n, key)})

IsDslEntry(e) == is_metta_language(detect_language(e.name))

\* The file's nesting takes the recursive descent past the recursion limit.
TooDeep(e) == DictGet(e, "too_deep", FALSE)

\* The record extract_definitions returned for the text.
ExtractedFrom(text, defs) ==
    \E i \in 1..Len(records) : records[i] = [source |-> text, defs |-> defs]

RECURSIVE NodesOf(_)
NodesOf(node) == {node} \cup UNION {NodesOf(node.children[i]) : i \in 1..Len(node.children)}

\* Every node the parser holds: those under construction, with all their
\* descendants, and the tree of the last parse.
ParserNodes ==
    UNION {NodesOf(pstack[i].node) : i \in {j \in 1..Len(pstack) : pstack[j].kind # "execution"}}
        \cup (IF ast = Nothing THEN {} ELSE NodesOf(ast[1]))

\* C5: at every step of a parse (so after each child is attached) and in
\* the tree parse returns, every node ends no earlier than it starts and no
\* earlier than any of its children ends.
C5_EndLineCoversNodeAndChildren ==
    \A n \in ParserNodes :
        /\ n.end_line >= n.line
        /\ \A i \in 1..Len(n.children) : n.end_line >= n.children[i].end_line

\* A returned tree with a node whose child ends on a later line than the
\* node starts: add_child had to move the node's end.
C5_Witness ==
    /\ ppc = "parsed"
    /\ \E n \in NodesOf(ast[1]) :
           /\ n.type # "program"
           /\ \E i \in 1..Len(n.children) : n.children[i].end_line > n.line

\* C7: whenever one parser instance has parsed and extracted the same
\* source more than once, whatever it parsed in between, the definitions
\* records are equal field for field.
C7_SameSourceSameRecord ==
    \A i, j \in 1..Len(records) :
        records[i].source = records[j].source => records[i].defs = records[j].defs

\* The same source extracted before and after a different one, with a
\* function in its record.
C7_Witness ==
    /\ Len(records) = 3
    /\ records[1].source = records[3].source
    /\ records[2].source # records[1].source
    /\ records[1].defs.summary.function_count > 0

(***************************************************************************)
(* The definitions record against the tree it was extracted from           *)
(***************************************************************************)
\* The nodes of a tree in pre-order.
RECURSIVE PreOrder(_)
RECURSIVE PreOrderAll(_, _)
PreOrder(node) == <<node>> \o PreOrderAll(node.children, 1)
PreOrderAll(children, i) ==
    IF i > Len(children) THEN <<>> ELSE PreOrder(children[i]) \o PreOrderAll(children, i + 1)

Extracted == ppc = "extracted"

LastDefs == records[Len(records)].defs

HasChildOfType(node, node_type) ==
    \E i \in 1..Len(node.children) : node.children[i].type = node_type

IsSignedDefinition(node) ==
    node.type = "function_definition" /\ HasChildOfType(node, "function_signature")

SignatureOf(node) ==
    node.children[CHOOSE i \in 1..Len(node.children) : node.children[i].type = "function_signature"]

\* C12: the function records are, in pre-order, one per function_definition
\* node with a function_signature child: named by the signature's value,
\* with the values of the signature's direct variable children as
\* parameters; definitions without a signature leave no record; the source
\* "(= (double $x) (* $x 2))" gives one function double with ["$x"].
C12_FunctionRecordsFollowSignatures ==
    Extracted =>
        LET defined == SelectSeq(PreOrder(ast[1]), IsSignedDefinition)
            funcs   == LastDefs.functions
        IN  /\ Len(funcs) = Len(defined)
            /\ \A i \in 1..Len(defined) :
                   LET sig  == SignatureOf(defined[i])
                       pars == SelectSeq(sig.children, IsVariableNode)
                   IN  /\ funcs[i].name = sig.value
                       /\ Len(funcs[i].parameters_Name) = Len(pars)
                       /\ \A k \in 1..Len(pars) : funcs[i].parameters_Name[k] = pars[k].value
            /\ source = SampleDouble =>
                   /\ Len(funcs) = 1
                   /\ funcs[1].name = <<"d", "o", "u", "b", "l", "e">>
                   /\ funcs[1].parameters_Name = << <<"$", "x">> >>

\* A tree with a definition that has a signature with a parameter, and a
\* definition that has none, has been extracted.
C12_Witness ==
    /\ Extracted
    /\ \E n \in NodesOf(ast[1]) : IsSignedDefinition(n) /\ HasChildOfType(SignatureOf(n), "variable")
    /\ \E n \in NodesOf(ast[1]) : n.type = "function_definition" /\ ~IsSignedDefinition(n)
    /\ Len(LastDefs.functions) = 1

IsExecutionNode(node) == node.type = "execution"

\* "op(n args)", or "op" when n = 0, for a node with elements
ElementsSignature(node) ==
    LET op == node.children[1].value
        n  == Len(node.children) - 1
    IN  IF n = 0 THEN op
        ELSE op \o <<"(">> \o NatToStr(n) \o <<" ", "a", "r", "g", "s", ")">>

\* C13 as stated: the execution records are, in pre-order, one per
\* execution node of the tree, each with the line of the node and the
\* signature "op(n args)" / "op" of the node's first child; "!(foo 1 2)"
\* gives one record with signature "foo(2 args)".
C13_EveryExecutionRecorded ==
    Extracted =>
        LET execs == SelectSeq(PreOrder(ast[1]), IsExecutionNode)
            recs  == LastDefs.executions
        IN  /\ Len(recs) = Len(execs)
            /\ \A i \in 1..Len(execs) :
                   /\ recs[i].line = execs[i].line
                   /\ (execs[i].children # <<>> /\ execs[i].children[1].children # <<>>) =>
                          recs[i].expression = ElementsSignature(execs[i].children[1])
            /\ source = SampleFoo =>
                   /\ Len(recs) = 1
                   /\ recs[1].expression =
                          <<"f", "o", "o", "(", "2", " ", "a", "r", "g", "s", ")">>

HasChildren(node) == node.children # <<>>

\* C13, amended: the execution records are, in pre-order, one per
\* execution node that has a child (a "!" that is not followed by "(" is an
\* execution node without children and leaves no record), each with the
\* line of the node and the signature of its first child: "op(n args)",
\* "op" when n = 0, "empty" when the first child has no elements;
\* "!(foo 1 2)" gives one record with signature "foo(2 args)".
C13_ExecutionsWithChildRecorded ==
    Extracted =>
        LET execs == SelectSeq(SelectSeq(PreOrder(ast[1]), IsExecutionNode), HasChildren)
            recs  == LastDefs.executions
        IN  /\ Len(recs) = Len(execs)
            /\ LastDefs.summary.execution_count = Len(execs)
            /\ \A i \in 1..Len(execs) :
                   /\ recs[i].line = execs[i].line
                   /\ recs[i].expression =
                          IF execs[i].children[1].children = <<>>
                          THEN <<"e", "m", "p", "t", "y">>
                          ELSE ElementsSignature(execs[i].children[1])
            /\ source = SampleFoo =>
                   /\ Len(recs) = 1
                   /\ recs[1].expression =
                          <<"f", "o", "o", "(", "2", " ", "a", "r", "g", "s", ")">>

\* A tree with an execution node without children and one with a child has
\* been extracted into one record.
C13_Witness ==
    /\ Extracted
    /\ \E n \in NodesOf(ast[1]) : n.type = "execution" /\ n.children = <<>>
    /\ \E n \in NodesOf(ast[1]) : n.type = "execution" /\ n.children # <<>>
    /\ Len(LastDefs.executions) = 1

IsExpressionNode(node) == node.type = "expression"

IsFactNode(node) ==
    node.type = "expression" /\ Len(node.children) = 3 /\ node.children[1].type = "atom"

IsGenericNode(node) == node.type = "expression" /\ ~IsFactNode(node)

\* C14: the fact records are, in pre-order, one per expression node with
\* exactly three children whose first child is an atom, with that child's
\* value as subject; every other expression node counts as a generic
\* expression, so fact_count + expression_count is the number of
\* expression nodes; "(Bob parent Alex)" is a fact with subject "Bob" and
\* "(a b)" is a generic expression.
C14_ExpressionsClassifiedOnce ==
    Extracted =>
        LET nodes == PreOrder(ast[1])
            facts == SelectSeq(nodes, IsFactNode)
            recs  == LastDefs.facts
        IN  /\ Len(recs) = Len(facts)
            /\ \A i \in 1..Len(facts) :
                   /\ recs[i].subject = facts[i].children[1].value
                   /\ recs[i].line = facts[i].line
            /\ LastDefs.summary.fact_count = Len(facts)
            /\ LastDefs.summary.expression_count = Len(SelectSeq(nodes, IsGenericNode))
            /\ LastDefs.summary.fact_count + LastDefs.summary.expression_count
                   = Len(SelectSeq(nodes, IsExpressionNode))
            /\ source = SampleBob =>
                   /\ Len(recs) = 1
                   /\ recs[1].subject = <<"B", "o", "b">>
                   /\ LastDefs.summary.expression_count = 0
            /\ source = SampleAB =>
                   /\ recs = <<>>
                   /\ LastDefs.summary.expression_count = 1

\* A tree with a fact, a two-element expression and a three-element
\* expression that starts with a variable has been extracted.
C14_Witness ==
    /\ Extracted
    /\ LastDefs.summary.fact_count = 1
    /\ LastDefs.summary.expression_count = 2
    /\ \E n \in NodesOf(ast[1]) :
           n.type = "expression" /\ Len(n.children) = 3 /\ n.children[1].type = "variable"

\* C15 as stated: each of the six summary counts is the length of the
\* collection of that name in the same record.
C15_CountsMatchCollections ==
    Extracted =>
        LET d == LastDefs
        IN  /\ d.summary.function_count   = Len(d.functions)
            /\ d.summary.execution_count  = Len(d.executions)
            /\ d.summary.fact_count       = Len(d.facts)
            /\ d.summary.variable_count   = Len(d.variables)
            /\ d.summary.atomespace_count = Len(d.atomespaces)
            /\ HasKey(d, "expressions")
            /\ d.summary.expression_count = Len(d.expressions)

\* C15, amended: the record holds five collections and the count of each
\* is its length; it holds no collection of expressions, and
\* expression_count is the number of expression nodes of the tree that are
\* not facts.
C15_CountsMatchStoredCollections ==
    Extracted =>
        LET d == LastDefs
        IN  /\ DOMAIN d = {"functions", "executions", "facts", "variables", "atomespaces", "summary"}
            /\ d.summary.function_count   = Len(d.functions)
            /\ d.summary.execution_count  = Len(d.executions)
            /\ d.summary.fact_count       = Len(d.facts)
            /\ d.summary.variable_count   = Len(d.variables)
            /\ d.summary.atomespace_count = Len(d.atomespaces)
            /\ d.summary.expression_count = Len(SelectSeq(PreOrder(ast[1]), IsGenericNode))

\* A record with every count positive, of a tree where a variable occurs twice.
C15_Witness ==
    /\ Extracted
    /\ \A k \in DOMAIN LastDefs.summary : LastDefs.summary[k] > 0
    /\ CountNodes(ast[1], "variable") > LastDefs.summary.variable_count

(***************************************************************************)
(* The registry, the tree object and the order of the walk                 *)
(***************************************************************************)
\* The files under e that no hidden name leads to, each with its path.
RECURSIVE VisibleFiles(_, _)
VisibleFiles(e, path) ==
    IF e.kind = "file" THEN {[path |-> path, entry |-> e]}
    ELSE UNION { VisibleFiles(c, path \o <<"/">> \o c.name) :
                   c \in {x \in e.entries : Head(x.name) # "."} }

\* The directories under e that no hidden name leads to, each with its path.
RECURSIVE VisibleDirs(_, _)
VisibleDirs(e, path) ==
    IF e.kind = "file" THEN {}
    ELSE {[path |-> path, entry |-> e]} \cup
         UNION { VisibleDirs(c, path \o <<"/">> \o c.name) :
                   c \in {x \in e.entries : Head(x.name) # "."} }

WalkedNodes == SeqToSet(TreeNodes(walked[1]))

LibraryFailures ==
    {"RuntimeError: Tree-sitter language library not found", "RuntimeError: Failed to load language"}

Unavailable(lang) == ~lib.exists \/ lang \notin lib.loadable

\* C16: in the returned tree a readable DSL file bears definitions whatever
\* the state of the external library, and a walk of DSL files leaves the
\* registry untouched; a readable file of an external language whose
\* library is missing or cannot be loaded bears the library's failure as
\* parse_error, and no definitions.
C16_LibraryFailureStaysOnItsFile ==
    WalkReturned =>
        /\ \A f \in VisibleFiles(fs, RootPath) :
               LET lang == detect_language(f.entry.name)
               IN  \E n \in WalkedNodes :
                       /\ n.path = f.path
                       /\ (lang = "metta" /\ f.entry.readable /\ ~f.entry.too_deep) =>
                              HasKey(n, "definitions") /\ ~HasKey(n, "parse_error")
                       /\ (lang \notin {"metta", NoLang} /\ f.entry.readable /\ Unavailable(lang)) =>
                              /\ HasKey(n, "parse_error")
                              /\ n.parse_error \in LibraryFailures
                              /\ ~HasKey(n, "definitions")
        /\ (\A f \in VisibleFiles(fs, RootPath) : detect_language(f.entry.name) \in {"metta", NoLang}) =>
               LANGS = {} /\ \A x \in failed : x.exc \notin LibraryFailures

\* A returned tree where the library is missing, a file of an external
\* language bears its failure and a DSL file bears definitions.
C16_Witness ==
    /\ WalkReturned
    /\ ~lib.exists
    /\ \E n \in WalkedNodes : HasKey(n, "parse_error") /\ n.parse_error \in LibraryFailures
    /\ \E n \in WalkedNodes :
           HasKey(n, "language") /\ n.language = "metta" /\ HasKey(n, "definitions")

\* C17 as stated: no step of a walk changes the registry's table of loaded
\* languages.
C17_RegistryFixedDuringWalk == [][LANGS' = LANGS]_vars

\* C18 as stated: once the walk has returned the tree, the tree object
\* stays as it was returned.
C18_TreeImmutableAfterWalk == WalkReturned => tree = walked

IsFolderNode(n) == n.type = "folder"

ChildNames(n) == [i \in 1..Len(n.children) |-> n.children[i].name]

\* C19: in the returned tree every visited directory has a folder node
\* whose children are its non-hidden entries, one node each, in strictly
\* ascending order of name; no node has a hidden name.
C19_ChildrenAreSortedVisibleEntries ==
    WalkReturned =>
        /\ \A d \in VisibleDirs(fs, RootPath) :
               \E n \in WalkedNodes :
                   /\ n.path = d.path
                   /\ IsFolderNode(n)
                   /\ SeqToSet(ChildNames(n)) = {x.name : x \in {y \in d.entry.entries : Head(y.name) # "."}}
                   /\ \A i \in 1..(Len(n.children) - 1) :
                          StrLess(n.children[i].name, n.children[i + 1].name)
        /\ \A n \in WalkedNodes : n = walked[1] \/ Head(n.name) # "."

\* A returned tree with a folder node of two children for a directory that
\* also has a hidden entry.
C19_Witness ==
    /\ WalkReturned
    /\ \E d \in VisibleDirs(fs, RootPath) :
           /\ \E x \in d.entry.entries : Head(x.name) = "."
           /\ \E n \in WalkedNodes : n.path = d.path /\ IsFolderNode(n) /\ Len(n.children) = 2

(***************************************************************************)
(* extract_definitions run on bounded syntax trees                         *)
(***************************************************************************)
\* Number of nodes below the root, the identifiers not counted.
MaxAstNodes == 3

\* What a node of the tree is made from: its type, the text of the
\* identifier that is its first child (if it has one), and whether that
\* identifier is in the field "name".
Label(type, ident, named) == [type |-> type, ident |-> ident, named |-> named]

\* The nodes tree-sitter gives for each language: a class and a function
\* with their name, the same with the name missing (the parser recovered
\* from an error), and the declaration of a variable.
Labels(lang) ==
    IF lang = "python"
    THEN {Label("class_definition", Just(<<"A">>), TRUE),
          Label("class_definition", Nothing, FALSE),
          Label("function_definition", Just(<<"f">>), TRUE),
          Label("function_definition", Nothing, FALSE),
          Label("assignment", Just(<<"v">>), FALSE)}
    ELSE IF lang = "javascript"
    THEN {Label("class_declaration", Just(<<"A">>), TRUE),
          Label("class_declaration", Nothing, FALSE),
          Label("function_declaration", Just(<<"f">>), TRUE),
          Label("method_definition", Just(<<"m">>), TRUE),
          Label("function_declaration", Nothing, FALSE),
          Label("variable_declarator", Just(<<"v">>), TRUE)}
    ELSE {Label("class_declaration", Just(<<"A">>), TRUE),
          Label("class_declaration", Nothing, FALSE),
          Label("method_declaration", Just(<<"m">>), TRUE),
          Label("constructor_declaration", Just(<<"A">>), TRUE),
          Label("method_declaration", Nothing, FALSE),
          Label("variable_declarator", Just(<<"v">>), TRUE)}

RootType(lang) == IF lang = "python" THEN "module" ELSE "program"

ExtractLanguages == {"python", "javascript", "java"}

RECURSIVE Shapes(_, _)
RECURSIVE ShapeForests(_, _)

\* The trees of n labelled nodes, and the ordered forests of n nodes.
Shapes(labels, n) ==
    {[label |-> l, kids |-> f] : l \in labels, f \in ShapeForests(labels, n - 1)}

ShapeForests(labels, n) ==
    IF n = 0 THEN {<<>>}
    ELSE UNION {{<<t>> \o f : t \in Shapes(labels, k), f \in ShapeForests(labels, n - k)} :
                k \in 1..n}

RECURSIVE ShapeSize(_)
RECURSIVE ForestSize(_, _)

ShapeSize(t) == 1 + ForestSize(t.kids, 1)

ForestSize(f, i) == IF i > Len(f) THEN 0 ELSE ShapeSize(f[i]) + ForestSize(f, i + 1)

RECURSIVE BuildNode(_, _)
RECURSIVE BuildForest(_, _, _)

\* The tree-sitter node of a shape that starts on row r: one row per node,
\* the identifier on the row of its parent.
BuildNode(t, r) ==
    LET last  == r + ShapeSize(t) - 1
        ident == IF t.label.ident = Nothing THEN <<>>
                 ELSE <<TsNode("identifier", r, r, t.label.ident[1], <<>>, 0)>>
    IN  TsNode(t.label.type, r, last, <<>>, ident \o BuildForest(t.kids, 1, r + 1),
               IF t.label.named THEN 1 ELSE 0)

BuildForest(f, i, r) ==
    IF i > Len(f) THEN <<>>
    ELSE <<BuildNode(f[i], r)>> \o BuildForest(f, i + 1, r + ShapeSize(f[i]))

\* The root of the tree of a file whose top-level nodes are the forest f.
BuildRoot(lang, f) ==
    TsNode(RootType(lang), 0, IF ForestSize(f, 1) = 0 THEN 0 ELSE ForestSize(f, 1) - 1,
           <<>>, BuildForest(f, 1, 0), 0)

\* The largest room an extraction is started with, short of the recursion
\* limit itself.
MaxExtractRoom == 10

SyntaxTrees(lang) ==
    {BuildRoot(lang, f) : f \in UNION {ShapeForests(Labels(lang), n) : n \in 0..MaxAstNodes}}

InitExtract ==
    /\ lang_name \in ExtractLanguages
    /\ xroot \in {Just(t) : t \in SyntaxTrees(lang_name)}
    /\ xstack = <<[node |-> xroot[1], current_class |-> 0, depth |-> 3]>>
    /\ xclasses = <<>>
    /\ functions_outside = <<>>
    /\ xpc = "walking"
    /\ xraised = ""
    /\ xroom \in (1..MaxExtractRoom) \cup {RecursionLimit}
    /\ xwarmup \in 0..QuickenAfter
    /\ WalkIdle
    /\ GraphIdle
    /\ LexIdle
    /\ ParseIdle
    /\ DocsIdle

NextExtract ==
    \/ ExtractWalk
    \/ ExtractOverflow
    \/ ExtractReturn

SpecExtract == InitExtract /\ [][NextExtract]_vars

\* run_docs.py is started: the project root and tools/md_to_html.py exist
\* or not.
InitDocs ==
    /\ target_exists \in BOOLEAN
    /\ tool_exists \in BOOLEAN
    /\ dpc = "idle"
    /\ dstep = 0
    /\ variants = <<>>
    /\ tried = <<>>
    /\ last_errors = <<>>
    /\ calls = <<>>
    /\ dstatus = Nothing
    /\ no_open \in BOOLEAN
    /\ platform \in Platforms
    /\ browser = NoBrowser
    /\ WalkIdle
    /\ GraphIdle
    /\ LexIdle
    /\ ParseIdle
    /\ ExtractIdle

NextDocs ==
    \/ MainRootMissing
    \/ MainStart
    \/ RunVariant
    \/ OpenBrowser

SpecDocs == InitDocs /\ [][NextDocs]_vars

(***************************************************************************)
(* Claims: where extract_definitions records a function and a class        *)
(***************************************************************************)
RECURSIVE TsNodes(_)
TsNodes(node) == {node} \cup UNION {TsNodes(node.children[i]) : i \in 1..Len(node.children)}

IsNamedClass(n) == IsClassType(lang_name, n.type) /\ n.name # 0

IsNamedFunction(n) == IsFunctionType(lang_name, n.type) /\ n.name # 0

\* The named class nodes n lies in, n excluded.
EnclosingClasses(n) ==
    {c \in TsNodes(xroot[1]) : /\ IsNamedClass(c)
                               /\ c.start_row < n.start_row
                               /\ n.start_row <= c.end_row}

\* The line of the nearest of them, 0 if there is none.
OwnerLine(n) ==
    IF EnclosingClasses(n) = {} THEN 0
    ELSE (CHOOSE c \in EnclosingClasses(n) :
             \A d \in EnclosingClasses(n) : d.start_row <= c.start_row).start_row + 1

\* The records of the function node n: <<index of the class record, index
\* in its functions>>, class 0 for the top-level functions.
RecordsOf(n) ==
    {<<0, j>> : j \in {k \in 1..Len(functions_outside) :
                         functions_outside[k].line = n.start_row + 1}}
    \cup UNION {{<<i, j>> : j \in {k \in 1..Len(xclasses[i].functions) :
                                     xclasses[i].functions[k].line = n.start_row + 1}} :
                i \in 1..Len(xclasses)}

\* The line of the class record that holds the record r, 0 for the top level.
HolderLine(r) == IF r[1] = 0 THEN 0 ELSE xclasses[r[1]].line

ExtractFinished == xpc \in {"returned", "raised"}

\* C20: when extract_definitions is over for a tree of python, javascript or
\* java, it has returned a record in which every named function node has
\* exactly one record, held by the record of the nearest named class node
\* around it or, without one, by the top-level functions, and in which
\* `classes` has one record per named class node, in pre-order.
C20_EveryDefinitionRecordedOnce ==
    ExtractFinished =>
        /\ xpc = "returned"
        /\ \A n \in TsNodes(xroot[1]) :
              IsNamedFunction(n) =>
                  /\ Cardinality(RecordsOf(n)) = 1
                  /\ \A r \in RecordsOf(n) : HolderLine(r) = OwnerLine(n)
        /\ Len(xclasses) = Cardinality({n \in TsNodes(xroot[1]) : IsNamedClass(n)})
        /\ \A i \in 1..Len(xclasses) :
              /\ \E n \in TsNodes(xroot[1]) :
                    /\ IsNamedClass(n)
                    /\ xclasses[i].line = n.start_row + 1
                    /\ xclasses[i].name = n.children[n.name].text
              /\ \A j \in 1..Len(xclasses) : i < j => xclasses[i].line < xclasses[j].line

\* Every record of a function: those of the top level and of the classes.
AllFunctionRecords ==
    {functions_outside[j] : j \in 1..Len(functions_outside)}
    \cup UNION {{xclasses[i].functions[j] : j \in 1..Len(xclasses[i].functions)} :
                i \in 1..Len(xclasses)}

\* C21: when extract_definitions is over for a tree of python, javascript or
\* java, it has returned without raising; every named function node has a
\* function entry with its name, line = start row + 1 and
\* num_lines = end row - start row + 1 >= 1; the records are those of the
\* named nodes only, a node without a name has none.
C21_NamedFunctionsRecordedWithLines ==
    ExtractFinished =>
        /\ xraised = ""
        /\ \A n \in TsNodes(xroot[1]) :
              IsNamedFunction(n) =>
                  \E r \in AllFunctionRecords :
                      /\ r.name = n.children[n.name].text
                      /\ r.line = n.start_row + 1
                      /\ r.num_lines = n.end_row - n.start_row + 1
                      /\ r.num_lines >= 1
        /\ Cardinality(AllFunctionRecords) =
               Cardinality({n \in TsNodes(xroot[1]) : IsNamedFunction(n)})
        /\ Len(xclasses) = Cardinality({n \in TsNodes(xroot[1]) : IsNamedClass(n)})

(***************************************************************************)
(* Claims: which match the lexer takes, and where it says the token is     *)
(***************************************************************************)
\* The end of the longest match any pattern has at index p.
LongestEnd(t, p) ==
    CHOOSE e \in {PatternEnd(TOKEN_PATTERNS[k], t, p) : k \in Matching(t, p)} :
        \A k \in Matching(t, p) : PatternEnd(TOKEN_PATTERNS[k], t, p) <= e

\* The patterns whose match at p is the longest one.
LongestPatterns(t, p) ==
    {k \in Matching(t, p) : PatternEnd(TOKEN_PATTERNS[k], t, p) = LongestEnd(t, p)}

\* C22: every token tokenize appends is the longest text any pattern matches
\* at its scan position, of the type of the first listed pattern among those
\* that match that long; a run of operator characters that is not the start
\* of a number is appended whole, as one token.
C22_LongestMatchEmitted ==
    [][ Len(lex'.tokens) > Len(lex.tokens) =>
            LET p   == NextMatchAt(code, lex.pos)
                tok == lex'.tokens[Len(lex'.tokens)]
            IN  /\ Len(tok.value) = LongestEnd(code, p) - p
                /\ \E k \in LongestPatterns(code, p) :
                      /\ tok.type = TOKEN_PATTERNS[k]
                      /\ \A j \in LongestPatterns(code, p) : k <= j
                /\ (code[p] \in OperatorChars /\ NumberEnd(code, p) = 0)
                       => tok.value = SubSeq(code, p, RunEnd(code, p, OperatorChars) - 1) ]_vars

\* The newline characters of t before index p.
NewlinesBefore(t, p) == {k \in 1..(p - 1) : t[k] = "\n"}

\* The 1-based index of the last newline before index p, 0 without one.
LastNewlineBefore(t, p) ==
    IF NewlinesBefore(t, p) = {} THEN 0
    ELSE CHOOSE k \in NewlinesBefore(t, p) : \A j \in NewlinesBefore(t, p) : j <= k

\* C26: every token tokenize appends has line = 1 + the number of newline
\* characters before its first character, and column = the offset of that
\* character from the last newline before it (from the start of the text
\* without one); its line is not below the line of the token before it.
C26_TokenLineAndColumn ==
    [][ Len(lex'.tokens) > Len(lex.tokens) =>
            LET p   == NextMatchAt(code, lex.pos)
                tok == lex'.tokens[Len(lex'.tokens)]
            IN  /\ tok.line = 1 + Cardinality(NewlinesBefore(code, p))
                /\ tok.column = (p - 1) - LastNewlineBefore(code, p)
                /\ Len(lex.tokens) > 0 => lex.tokens[Len(lex.tokens)].line <= tok.line ]_vars

(***************************************************************************)
(* Claims: the forms of a parse against the tokens they were made from     *)
(***************************************************************************)
ParseOver == ppc \in {"parsed", "extracted"}

\* The forms the parser has returned so far.
Forms == {phist.forms[i] : i \in 1..Len(phist.forms)}

\* The form that began at token number k.
FormAt(k) == CHOOSE r \in Forms : r.open = k

\* A form with something between its "(" and the end: not "()" and not a
\* "(" that is the last token.
IsNonEmptyForm(r) == r.open < Len(tokens) /\ tokens[r.open + 1].type # "RPAREN"

\* The token number after the last token of the form r.
AfterForm(r) == IF r.close = 0 THEN Len(tokens) + 1 ELSE r.close + 1

\* The number of "(" less the number of ")" among the first k tokens.
RECURSIVE ParenDepth(_)
ParenDepth(k) ==
    IF k = 0 THEN 0
    ELSE ParenDepth(k - 1) + (CASE tokens[k].type = "LPAREN" -> 1
                                [] tokens[k].type = "RPAREN" -> -1
                                [] OTHER -> 0)

\* The token number of the ")" that closes the "(" at token k by the count
\* of the parentheses, the number after the last token when none does.
ClosingParen(k) ==
    LET closes == {j \in (k + 1)..Len(tokens) : ParenDepth(j) = ParenDepth(k - 1)}
    IN  IF closes = {} THEN Len(tokens) + 1
        ELSE CHOOSE j \in closes : \A i \in closes : j <= i

\* Stands for the node of a "(" for which the parser returned no form.
NoNode == [type |-> "none"]

RECURSIVE InnerElements(_, _)
\* The elements of the source from token number k up to (not including)
\* token number stop, in source order: a "(" stands for the node of the
\* form it opens, which reaches to its closing ")"; any other token for
\* its atom node.
InnerElements(k, stop) ==
    IF k >= stop \/ k > Len(tokens) THEN <<>>
    ELSE IF tokens[k].type = "LPAREN"
         THEN <<IF \E r \in Forms : r.open = k THEN FormAt(k).node ELSE NoNode>>
                  \o InnerElements(ClosingParen(k) + 1, stop)
         ELSE <<parse_atom(tokens[k])>> \o InnerElements(k + 1, stop)

\* The form r is an expression node that holds the elements between its
\* "(" and the ")" that closes it.
IsExpressionOfElements(r) ==
    /\ r.node.type = "expression"
    /\ r.node.children = InnerElements(r.open + 1, ClosingParen(r.open))

\* C23 as stated: every non-empty form is a function_definition if and only
\* if the token after its "(" is "="; every other one is an expression
\* node whose children are its inner elements, in order, up to its ")".
C23_FormKindByFirstToken ==
    ParseOver =>
        \A r \in Forms :
            IsNonEmptyForm(r) =>
                IF tokens[r.open + 1].type = "EQUALS"
                THEN r.node.type = "function_definition"
                ELSE IsExpressionOfElements(r)

\* The form r stands where _parse_function_definition looks for the
\* signature: right after the "=" that follows the "(" of a definition.
IsSignatureForm(r) ==
    /\ r.open > 2
    /\ tokens[r.open - 1].type = "EQUALS"
    /\ \E d \in Forms : d.open = r.open - 2 /\ d.node.type = "function_definition"

\* The statement of C23 for the forms _parse_expression parses, the
\* signature forms (function_signature nodes whatever their first token is)
\* left aside.  It fails as well: a definition with the empty signature
\* "()" is closed by the ")" of that signature, and the form around it by
\* the ")" of the definition, before its last elements.
FormKindOutsideSignatures ==
    ParseOver =>
        \A r \in Forms :
            IsNonEmptyForm(r) =>
                IF IsSignatureForm(r)
                THEN r.node.type = "function_signature"
                ELSE IF tokens[r.open + 1].type = "EQUALS"
                     THEN r.node.type = "function_definition"
                     ELSE IsExpressionOfElements(r)

\* A "(" "=" "(" ")" in the tokens: a definition with an empty signature.
HasEmptySignature ==
    \E k \in 1..(Len(tokens) - 3) :
        /\ tokens[k].type = "LPAREN"
        /\ tokens[k + 1].type = "EQUALS"
        /\ tokens[k + 2].type = "LPAREN"
        /\ tokens[k + 3].type = "RPAREN"

\* Where no definition has an empty signature, every form but the
\* signature forms is as C23 states.
FormKindWithoutEmptySignatures ==
    HasEmptySignature \/ FormKindOutsideSignatures

\* The steps of one call of parse after its start.
ParserStep ==
    \/ TopComment
    \/ TopExecution
    \/ TopExpression
    \/ TopSkip
    \/ Element
    \/ CloseExpression
    \/ CloseSignature
    \/ Unterminated
    \/ ParseReturn

Parsing == ppc = "parsing"

\* C24: parse always goes on and ends.  While it runs some step is possible
\* and the cursor is within the tokens; a step with tokens left moves the
\* cursor forward, a step without tokens left returns from a form or from
\* parse, so no run of parse is endless; a top-level token that is not a
\* comment, "!" or "(" is consumed and nothing else changes; a form still
\* open at the end of the tokens is returned as it is; parse returns a
\* program root with the cursor at the number of tokens, and a parse that
\* has its tokens does not raise.
C24_ParseTotalAndForward ==
    /\ [][Parsing => ppc' # "raised"]_vars
    /\ [](Parsing => (current <= Len(tokens) /\ ENABLED ParserStep))
    /\ [](ParseOver => (ast # Nothing /\ ast[1].type = "program" /\ current = Len(tokens)))
    /\ [][ Parsing =>
              /\ ~is_at_end(tokens, current) => (current' > current /\ Parsing')
              /\ is_at_end(tokens, current) =>
                     /\ current' = current
                     /\ \/ Parsing' /\ Len(pstack') < Len(pstack)
                        \/ ParseOver'
              /\ (AtTopLevel /\ peek(tokens, current).type \notin {"COMMENT", "EXECUTE", "LPAREN"})
                     => (current' = current + 1 /\ pstack' = pstack)
              /\ (InForm /\ is_at_end(tokens, current))
                     => LET r == phist'.forms[Len(phist'.forms)]
                        IN  r.node = PTop.node /\ r.close = 0 ]_vars

\* parse has returned from a source with a skipped top-level token and a
\* form that was open at the end with a child.
C24_Witness ==
    /\ ParseOver
    /\ phist.skipped # <<>>
    /\ \E r \in Forms : r.close = 0 /\ Len(r.node.children) > 0

\* C25: every form whose ")" the parser consumed (expression, definition,
\* signature, empty form) ends on the line of that ")", and its end_point
\* is (end_line - 1, 0).
C25_ClosedFormsEndAtTheirParen ==
    \A r \in Forms :
        r.close # 0 =>
            /\ r.node.end_line = tokens[r.close].line
            /\ r.node.end_point = <<r.node.end_line - 1, 0>>

(***************************************************************************)
(* Balanced parentheses                                                    *)
(***************************************************************************)
Balanced ==
    /\ ParenDepth(Len(tokens)) = 0
    /\ \A k \in 1..Len(tokens) : ParenDepth(k) >= 0

\* The ")" that closes the "(" at token k of balanced tokens.
MatchingParen(k) ==
    CHOOSE j \in (k + 1)..Len(tokens) :
        /\ ParenDepth(j) = ParenDepth(k - 1)
        /\ \A i \in k..(j - 1) : ParenDepth(i) > ParenDepth(k - 1)

\* The "(" tokens that open a top-level group.
TopGroupOpens == {k \in 1..Len(tokens) : tokens[k].type = "LPAREN" /\ ParenDepth(k - 1) = 0}

IsFormNode(n) == n.type \in {"expression", "function_definition", "empty_expression"}

\* The forms among the children of the root, those under an execution included.
TopFormNodes ==
    SelectSeq(ast[1].children,
              LAMBDA n : IsFormNode(n) \/ (n.type = "execution" /\ n.children # <<>>))

\* C27: after a parse of tokens with balanced parentheses, every form was
\* closed by the ")" that matches its "(", the root has one form per
\* top-level group, and the top level took or skipped no ")" and no token
\* from inside a group.
C27_BalancedFormsCloseOnTheirOwnParen ==
    (ParseOver /\ Balanced) =>
        /\ \A r \in Forms : r.close = MatchingParen(r.open)
        /\ Len(TopFormNodes) = Cardinality(TopGroupOpens)
        /\ \A i \in 1..Len(phist.skipped) :
               /\ tokens[phist.skipped[i]].type # "RPAREN"
               /\ ParenDepth(phist.skipped[i]) = 0
        /\ \A i \in 1..Len(phist.tops) : ParenDepth(phist.tops[i] - 1) = 0

(***************************************************************************)
(* Executed expressions in the definitions record                          *)
(***************************************************************************)
IsExecutedExpression(n) ==
    n.type = "execution" /\ n.children # <<>> /\ n.children[1].type = "expression"

\* C28 as first stated: an expression is reported in at most one of
\* executions, facts and expressions.  The facts and the generic
\* expressions of a record are together as many as the expression nodes of
\* the tree that no "!" executes directly: an executed expression gives an
\* execution record only.
C28_ExecutedExpressionCountedOnce ==
    Extracted =>
        LET nodes == PreOrder(ast[1])
        IN  LastDefs.summary.fact_count + LastDefs.summary.expression_count
                = Len(SelectSeq(nodes, IsExpressionNode)) - Len(SelectSeq(nodes, IsExecutedExpression))

IsExecutionWithChild(n) == n.type = "execution" /\ n.children # <<>>

\* C28: every expression node of the tree, executed or not, is reported
\* once as a fact or as a generic expression, and every execution with a
\* child gives one execution record: the expression a "!" executes is in
\* the executions and also among the facts or the generic expressions.
C28_EveryExpressionClassified ==
    Extracted =>
        LET nodes == PreOrder(ast[1])
        IN  /\ LastDefs.summary.fact_count + LastDefs.summary.expression_count
                   = Len(SelectSeq(nodes, IsExpressionNode))
            /\ Len(LastDefs.executions) = Len(SelectSeq(nodes, IsExecutionWithChild))
            /\ Len(LastDefs.facts) = LastDefs.summary.fact_count

\* A source that is one executed expression of three elements: its record
\* has one execution and one fact.
C28_Witness ==
    /\ Extracted
    /\ Len(ast[1].children) = 1
    /\ IsExecutedExpression(ast[1].children[1])
    /\ Len(ast[1].children[1].children[1].children) = 3
    /\ Len(LastDefs.executions) = 1
    /\ Len(LastDefs.facts) = 1

(***************************************************************************)
(* Comments inside a form                                                  *)
(***************************************************************************)
\* A node made from a COMMENT token inside a form: no other token starts
\* with ";".
IsCommentChild(n) == n.type = "unknown" /\ n.value # <<>> /\ n.value[1] = ";"

NotCommentChild(n) == ~IsCommentChild(n)

\* The node with the comments taken out of its children.
WithoutComments(node) == [node EXCEPT !.children = SelectSeq(@, NotCommentChild)]

\* walk_metta_ast reports the expression node as a fact.
IsFact(node) == OwnConstructs(node).facts # <<>>

\* C29 as first stated: a comment inside a form is no child of it.  Every
\* expression node of the tree has the child count, the signature and the
\* fact/expression classification it has with its comments removed.
C29_CommentsAreNotChildren ==
    ParseOver =>
        \A n \in NodesOf(ast[1]) :
            n.type = "expression" =>
                /\ Len(n.children) = Len(WithoutComments(n).children)
                /\ get_expression_signature(n) = get_expression_signature(WithoutComments(n))
                /\ IsFact(n) <=> IsFact(WithoutComments(n))

RECURSIVE InnerStarts(_, _)
\* The token numbers at which the elements from token number k up to (not
\* including) token number stop begin.
InnerStarts(k, stop) ==
    IF k >= stop \/ k > Len(tokens) THEN <<>>
    ELSE IF tokens[k].type = "LPAREN"
         THEN <<k>> \o InnerStarts(AfterForm(FormAt(k)), stop)
         ELSE <<k>> \o InnerStarts(k + 1, stop)

\* The operator with the number of the other elements, as str.format writes it.
SignatureText(operator, arg_count) ==
    IF arg_count > 0
    THEN operator \o <<"(">> \o NatToStr(arg_count) \o <<" ", "a", "r", "g", "s", ")">>
    ELSE operator

\* C29: a comment token inside an expression form is an element of it like
\* any other token.  It becomes a child of kind unknown that holds the
\* comment text; the child count is the number of elements with the
\* comments, the signature counts them among the arguments, and the form is
\* a fact exactly if it has three elements, comments included, the first of
\* them an atom.
C29_CommentsAreElements ==
    ParseOver =>
        \A r \in Forms :
            r.node.type = "expression" =>
                LET starts == InnerStarts(r.open + 1, AfterForm(r) - (IF r.close = 0 THEN 0 ELSE 1))
                    kids   == r.node.children
                IN  /\ Len(kids) = Len(starts)
                    /\ \A i \in 1..Len(starts) :
                           tokens[starts[i]].type = "COMMENT" =>
                               kids[i] = MeTTaNode("unknown", tokens[starts[i]].value,
                                                   tokens[starts[i]].line, 0)
                    /\ get_expression_signature(r.node) = SignatureText(kids[1].value, Len(starts) - 1)
                    /\ IsFact(r.node) <=> (Len(starts) = 3 /\ tokens[starts[1]].type = "ATOM")

\* A parsed form "(a ;c b)": a fact with its comment, and no fact without.
C29_Witness ==
    /\ ParseOver
    /\ \E r \in Forms :
           /\ r.node.type = "expression"
           /\ r.close # 0
           /\ Len(r.node.children) = 3
           /\ IsCommentChild(r.node.children[2])
           /\ IsFact(r.node)
           /\ ~IsFact(WithoutComments(r.node))

\* Every command of the list of the running step was run and none of them
\* returned 0.
AllVariantsFailed ==
    /\ dstep > 0
    /\ Len(tried) = Len(variants)
    /\ \A i \in 1..Len(tried) : tried[i].outcome # "zero"

\* The steps whose try_variants call returned.
SucceededSteps == {calls[k].step : k \in 1..Len(calls)}

\* try_variants runs the commands in list order and a command that exits
\* with code 0 is the last one it runs; a step of main is started only
\* after every step before it has succeeded.
InOrder ==
    /\ \A i \in 1..Len(tried) :
           /\ tried[i].cmd = variants[i]
           /\ tried[i].outcome = "zero" => (i = Len(tried) /\ dpc \in {"done", "opening"})
    /\ dstep > 0 => \A e \in 1..(dstep - 1) : e \in SucceededSteps
    /\ \A k \in 1..Len(calls) : calls[k].step = k /\ calls[k].ran \in 1..Len(StepVariants[k])

\* C30 as stated: try_variants runs the commands in list order; a command
\* that exits with code 0 is the last one it runs; the process ends with
\* status 1 exactly when every command of a list failed or was not found
\* (the project root existing); and a step of main is started only after
\* every step before it has succeeded.
C30_VariantsInOrderStepsInOrder ==
    /\ InOrder
    /\ target_exists => (dstatus = Just(1) <=> AllVariantsFailed)

\* Where no subprocess.run raised anything but FileNotFoundError, the
\* commands and the steps are in order and the process ends with status 1
\* exactly when every command of a list failed or was not found.
InOrderUnlessRunRaises ==
    /\ InOrder
    /\ (target_exists /\ \A i \in 1..Len(tried) : tried[i].outcome # "raised")
           => (dstatus = Just(1) <=> AllVariantsFailed)

====
